---------------------------- MODULE Spec2Model ----------------------------
(***************************************************************************)
(* Model of the configuration store of the OPNsense VPN profile editor     *)
(* (src/models.py): the value objects User / OPNsenseProfile /             *)
(* UserProfile, the naming helpers, and ConfigManager with its load,       *)
(* migration, save and CRUD operations.                                    *)
(*                                                                         *)
(* Representation.                                                         *)
(*  - A Python str is a sequence of one-character strings, so that         *)
(*    strip(), lower() and concatenation are computed, not assumed.        *)
(*  - A JSON / Python dynamic value is a tagged record [t, v]:             *)
(*    null, str, int, obj (a function from keys to values), arr.           *)
(*  - Optional[str] (the selection pointers) is JNull or JStr(id).         *)
(*  - uuid.uuid4().hex is a fresh string drawn from a counter.             *)
(*  - In the runs of Spec the lists and dicts are values: every operation  *)
(*    is modelled by the value it leaves.  The runs of HeapSpec keep the   *)
(*    same objects by address in heap, so that two profiles sharing one    *)
(*    list or dict, or a profile sharing a dict with its caller, shows.    *)
(***************************************************************************)
EXTENDS Integers, Sequences, FiniteSets, TLC

VARIABLES
    mgr,       \* the ConfigManager instance: collections and selection pointers
    loaded,    \* FALSE until ConfigManager.load() has returned a manager
    store,     \* the primary store file (CONFIG_DATA_PATH)
    legacy,    \* the three legacy files (profiles, settings, users)
    uuid,      \* number of uuid4() values drawn so far
    last,      \* the last call: operation, arguments, outcome, notifications
    nops,      \* number of in-memory manager calls made so far
    nfileops,  \* number of load() / save() calls made so far
    heap,      \* the mutable objects by address, where a run keeps track of them
    app        \* the application window: selections, buttons and worker threads

vars == <<mgr, loaded, store, legacy, uuid, last, nops, nfileops, heap, app>>

\* Bound on the number of in-memory manager calls in one run.
MaxOps == 2

\* Bound on the number of calls of any kind (load, save, in-memory) in one run.
MaxSteps == 4

\* Bound on the number of calls in a run that keeps track of object identity.
MaxHeapOps == 3

----------------------------------------------------------------------------
(* Python str primitives *)

UpperChars == <<"A", "B", "C", "D", "E", "F", "G", "H", "I", "J", "K", "L", "M",
                "N", "O", "P", "Q", "R", "S", "T", "U", "V", "W", "X", "Y", "Z">>

LowerChars == <<"a", "b", "c", "d", "e", "f", "g", "h", "i", "j", "k", "l", "m",
                "n", "o", "p", "q", "r", "s", "t", "u", "v", "w", "x", "y", "z">>

Whitespace == {" ", "\t", "\n", "\r"}

LowerChar(c) ==
    IF \E i \in 1..Len(UpperChars) : UpperChars[i] = c
    THEN LowerChars[CHOOSE i \in 1..Len(UpperChars) : UpperChars[i] = c]
    ELSE c

\* str.lower()
Lower(s) == [i \in 1..Len(s) |-> LowerChar(s[i])]

RECURSIVE LStrip(_)
LStrip(s) == IF s # <<>> /\ Head(s) \in Whitespace THEN LStrip(Tail(s)) ELSE s

RECURSIVE RStrip(_)
RStrip(s) ==
    IF s # <<>> /\ s[Len(s)] \in Whitespace THEN RStrip(SubSeq(s, 1, Len(s) - 1)) ELSE s

\* str.strip()
Strip(s) == RStrip(LStrip(s))

DigitChars == <<"0", "1", "2", "3", "4", "5", "6", "7", "8", "9">>

\* str(n) for an integer n >= 0
RECURSIVE Dec(_)
Dec(n) == IF n < 10 THEN <<DigitChars[n + 1]>> ELSE Dec(n \div 10) \o <<DigitChars[(n % 10) + 1]>>

\* s.endswith(suffix)
EndsWith(s, suffix) ==
    /\ Len(suffix) <= Len(s)
    /\ SubSeq(s, Len(s) - Len(suffix) + 1, Len(s)) = suffix

\* the index of the first "{}" in fmt, 0 when there is none ("{}" in fmt)
PlaceholderAt(fmt) ==
    LET hits == {i \in 1..(Len(fmt) - 1) : fmt[i] = "{" /\ fmt[i + 1] = "}"}
    IN  IF hits = {} THEN 0 ELSE CHOOSE i \in hits : \A j \in hits : i <= j

\* fmt.format(arg) for a format with one "{}" placeholder
Format(fmt, arg) ==
    LET p == PlaceholderAt(fmt)
    IN  SubSeq(fmt, 1, p - 1) \o arg \o SubSeq(fmt, p + 2, Len(fmt))

----------------------------------------------------------------------------
(* Dynamic (JSON) values *)

JNull == [t |-> "null"]
JStr(s) == [t |-> "str", v |-> s]
JInt(n) == [t |-> "int", v |-> n]
JObj(f) == [t |-> "obj", v |-> f]
JArr(a) == [t |-> "arr", v |-> a]

EmptyObj == JObj(<<>>)
EmptyArr == JArr(<<>>)

\* isinstance(j, dict)
IsDict(j) == j.t = "obj"

\* bool(j): None, "", 0, {} and [] are falsy
Truthy(j) ==
    CASE j.t = "null" -> FALSE
      [] j.t = "str"  -> j.v # <<>>
      [] j.t = "int"  -> j.v # 0
      [] j.t = "obj"  -> DOMAIN j.v # {}
      [] j.t = "arr"  -> j.v # <<>>

\* key in d
Has(d, key) == key \in DOMAIN d.v

\* d.get(key, default)
GetOr(d, key, default) == IF Has(d, key) THEN d.v[key] ELSE default

\* d.get(key)
Get(d, key) == GetOr(d, key, JNull)

\* a or b
Or(a, b) == IF Truthy(a) THEN a ELSE b

\* d[key] = value
Put(d, key, value) == JObj((key :> value) @@ d.v)

\* str(j)
Str(j) ==
    CASE j.t = "str"  -> j.v
      [] j.t = "int"  -> Dec(j.v)
      [] j.t = "null" -> <<"N", "o", "n", "e">>

----------------------------------------------------------------------------
(* Default / template tables *)

DEFAULT_PROFILE_NAME == <<"D", "e", "f", "a", "u", "l", "t">>

DEFAULT_CONNECTION ==
    JObj([ApiBaseUrl |-> JStr(<<"h", "t", "t", "p", "s", ":", "/", "/", "f", "i", "r", "e", "w", "a", "l", "l", ".", "e", "x", "a", "m", "p", "l", "e", ".", "c", "o", "m", ":", "4", "4", "4", "3">>),
          ApiKey     |-> JStr(<<>>),
          ApiSecret  |-> JStr(<<>>),
          SshHost    |-> JStr(<<"f", "i", "r", "e", "w", "a", "l", "l", ".", "e", "x", "a", "m", "p", "l", "e", ".", "c", "o", "m">>),
          SshUser    |-> JStr(<<"r", "o", "o", "t">>),
          SshPass    |-> JStr(<<>>)])

DEFAULT_AUTOMATION ==
    JObj([GroupName        |-> JStr(<<"v", "p", "n", "-", "u", "s", "e", "r", "s">>),
          GroupDesc        |-> JStr(<<"V", "P", "N", " ", "u", "s", "e", "r", "s", " ", "(", "a", "u", "t", "o", "-", "g", "e", "n", "e", "r", "a", "t", "e", "d", ")">>),
          VpnTunnelNetwork |-> JStr(<<"1", "0", ".", "9", "9", ".", "0", ".", "0", "/", "2", "4">>),
          VpnLocalNetwork  |-> JStr(<<"1", "9", "2", ".", "1", "6", "8", ".", "1", ".", "0", "/", "2", "4">>),
          StaticKeyMode    |-> JStr(<<"t", "l", "s", "-", "c", "r", "y", "p", "t">>),
          VpnDevType       |-> JStr(<<"t", "u", "n">>),
          VpnTopology      |-> JStr(<<"s", "u", "b", "n", "e", "t">>),
          InterfaceDesc    |-> JStr(<<"V", "P", "N", "_", "T", "U", "N", "N", "E", "L", "_", "A", "U", "T", "O">>),
          NamePatterns     |-> JObj([CaPrefix        |-> JStr(<<"A", "u", "t", "o", "C", "A", "_", "V", "P", "N">>),
                                     ServerCn        |-> JStr(<<"A", "u", "t", "o", "V", "P", "N", "_", "G", "a", "t", "e", "w", "a", "y">>),
                                     StaticKeyPrefix |-> JStr(<<"A", "u", "t", "o", "T", "L", "S", "K", "e", "y">>),
                                     InstancePrefix  |-> JStr(<<"A", "u", "t", "o", "V", "P", "N", "_", "S", "e", "r", "v", "e", "r">>)]),
          Lifetimes        |-> JObj([CALifetimeDays         |-> JInt(3650),
                                     ServerCertLifetimeDays |-> JInt(3650),
                                     ClientCertLifetimeDays |-> JInt(3650)]),
          Firewall         |-> JObj([VpnListenPort |-> JStr(<<"1", "1", "9", "4">>),
                                     VpnProto      |-> JStr(<<"u", "d", "p", "4">>)])])

DEFAULT_USER_TEMPLATE ==
    JObj([username  |-> JStr(<<"u", "s", "e", "r", "1">>),
          password  |-> JStr(<<"c", "h", "a", "n", "g", "e", "m", "e">>),
          full_name |-> JStr(<<"N", "e", "w", " ", "V", "P", "N", " ", "U", "s", "e", "r">>),
          email     |-> JStr(<<"u", "s", "e", "r", "@", "e", "x", "a", "m", "p", "l", "e", ".", "c", "o", "m">>)])

\* deepcopy(DEFAULT_CONNECTION): values are immutable here, a copy is the value
new_connection_defaults == DEFAULT_CONNECTION

new_automation_defaults == DEFAULT_AUTOMATION

----------------------------------------------------------------------------
(* Naming helpers *)

COPY_FMT == <<" ", "(", "c", "o", "p", "y", ")">>

\* Fault: the counter is put after the closing parenthesis.
format_copy_name_counter_last(base, fmt, suffix_index) ==
    IF suffix_index <= 1 THEN base \o fmt ELSE base \o fmt \o <<" ">> \o Dec(suffix_index)

format_copy_name(base, fmt, suffix_index) ==
    IF suffix_index <= 1
    THEN IF PlaceholderAt(fmt) # 0 THEN base \o Format(fmt, <<>>) ELSE base \o fmt
    ELSE IF PlaceholderAt(fmt) # 0 THEN base \o Format(fmt, Dec(suffix_index))
    ELSE IF EndsWith(fmt, <<")">>)
         THEN base \o SubSeq(fmt, 1, Len(fmt) - 1) \o <<" ">> \o Dec(suffix_index) \o <<")">>
    ELSE base \o fmt \o <<" ">> \o Dec(suffix_index)

LowerSet(taken) == {Lower(item) : item \in taken}

\* the while-loop of make_unique_name, from suffix_index on
RECURSIVE copy_name_from(_, _, _, _)
copy_name_from(candidate_base, taken_lower, fmt, suffix_index) ==
    LET candidate == format_copy_name(candidate_base, fmt, suffix_index)
    IN  IF Lower(candidate) \notin taken_lower
        THEN candidate
        ELSE copy_name_from(candidate_base, taken_lower, fmt, suffix_index + 1)

make_unique_name_fmt(base, taken, fmt) ==
    LET stripped       == Strip(base)
        candidate_base == IF stripped # <<>> THEN stripped ELSE DEFAULT_PROFILE_NAME
        taken_lower    == LowerSet(taken)
    IN  IF Lower(candidate_base) \notin taken_lower
        THEN candidate_base
        ELSE copy_name_from(candidate_base, taken_lower, fmt, 1)

\* make_unique_name with the default suffix format " (copy)"
make_unique_name(base, taken) == make_unique_name_fmt(base, taken, COPY_FMT)

\* the while-loop of make_unique_username, from counter on
RECURSIVE copy_username_from(_, _, _)
copy_username_from(candidate_base, taken_lower, counter) ==
    LET candidate == candidate_base \o <<"-", "c", "o", "p", "y">> \o <<"-">> \o Dec(counter)
    IN  IF Lower(candidate) \notin taken_lower
        THEN candidate
        ELSE copy_username_from(candidate_base, taken_lower, counter + 1)

\* Fault: the plain -copy candidate is never tried.
make_unique_username_skips_plain_copy(base, taken) ==
    LET stripped       == Strip(base)
        candidate_base == IF stripped # <<>> THEN stripped ELSE DEFAULT_USER_TEMPLATE.v["username"].v
        taken_lower    == LowerSet(taken)
    IN  IF Lower(candidate_base) \notin taken_lower THEN candidate_base
        ELSE copy_username_from(candidate_base, taken_lower, 2)

make_unique_username(base, taken) ==
    LET stripped       == Strip(base)
        candidate_base == IF stripped # <<>> THEN stripped ELSE DEFAULT_USER_TEMPLATE.v["username"].v
        taken_lower    == LowerSet(taken)
        candidate      == candidate_base \o <<"-", "c", "o", "p", "y">>
    IN  IF Lower(candidate_base) \notin taken_lower THEN candidate_base
        ELSE IF Lower(candidate) \notin taken_lower THEN candidate
        ELSE copy_username_from(candidate_base, taken_lower, 2)

----------------------------------------------------------------------------
(* Value objects *)

\* User(username, password, full_name, email): original_username defaults to None
User(username, password, full_name, email) ==
    [username |-> username, password |-> password, full_name |-> full_name,
     email |-> email, original_username |-> JNull]

User_to_dict(user) ==
    JObj([username  |-> JStr(user.username),
          password  |-> JStr(user.password),
          full_name |-> JStr(user.full_name),
          email     |-> JStr(user.email)])

User_to_legacy_dict(user) ==
    JObj([Name     |-> JStr(user.username),
          Password |-> JStr(user.password),
          Full     |-> JStr(user.full_name),
          Email    |-> JStr(user.email)])

User_clone(user) == User(user.username, user.password, user.full_name, user.email)

User_from_dict(payload0) ==
    LET payload == IF Truthy(payload0) THEN payload0 ELSE EmptyObj
    IN  User(Str(GetOr(payload, "username", GetOr(payload, "Name", JStr(<<>>)))),
             Str(GetOr(payload, "password", GetOr(payload, "Password", JStr(<<>>)))),
             Str(GetOr(payload, "full_name", GetOr(payload, "Full", JStr(<<>>)))),
             Str(GetOr(payload, "email", GetOr(payload, "Email", JStr(<<>>)))))

\* uuid.uuid4().hex: the n-th value drawn, distinct from every other id
Uuid4Hex(n) == <<"u">> \o Dec(n)

\* the nested _merge_defaults of OPNsenseProfile.from_dict
RECURSIVE merge_defaults(_, _)
merge_defaults(target, defaults) ==
    JObj([k \in (DOMAIN target.v) \cup (DOMAIN defaults.v) |->
            IF k \notin DOMAIN target.v THEN defaults.v[k]
            ELSE IF k \in DOMAIN defaults.v /\ IsDict(defaults.v[k]) /\ IsDict(target.v[k])
                 THEN merge_defaults(target.v[k], defaults.v[k])
            ELSE target.v[k]])

\* settings after the connection / automation backfill of from_dict
backfill_settings(settings) ==
    LET connection ==
            IF ~Has(settings, "connection") \/ ~IsDict(settings.v["connection"])
            THEN new_connection_defaults
            ELSE JObj(settings.v["connection"].v @@ DEFAULT_CONNECTION.v)
        automation ==
            IF ~Has(settings, "automation") \/ ~IsDict(settings.v["automation"])
            THEN new_automation_defaults
            ELSE merge_defaults(settings.v["automation"], DEFAULT_AUTOMATION)
    IN  Put(Put(settings, "connection", connection), "automation", automation)

\* OPNsenseProfile.from_dict; u is the number of uuid4() values drawn before.
\* Returns the profile and the number drawn after.
OPNsenseProfile_from_dict(payload, u) ==
    LET id_given == Truthy(Get(payload, "id"))
        name     == Or(Get(payload, "name"), JStr(DEFAULT_PROFILE_NAME))
        settings == Or(Get(payload, "settings"), EmptyObj)
    IN  [p    |-> [id       |-> IF id_given THEN Str(Get(payload, "id")) ELSE Uuid4Hex(u + 1),
                   name     |-> Str(name),
                   settings |-> backfill_settings(settings)],
         uuid |-> IF id_given THEN u ELSE u + 1]

OPNsenseProfile_to_dict(profile) ==
    JObj([id |-> JStr(profile.id), name |-> JStr(profile.name), settings |-> profile.settings])

\* OPNsenseProfile.clone(new_id=..., name=...): name or self.name
OPNsenseProfile_clone(profile, new_id, name) ==
    [id       |-> new_id,
     name     |-> IF name # <<>> THEN name ELSE profile.name,
     settings |-> profile.settings]

UserProfile_from_dict(payload, u) ==
    LET id_given      == Truthy(Get(payload, "id"))
        name          == Or(Get(payload, "name"), JStr(DEFAULT_PROFILE_NAME))
        users_payload == Or(Get(payload, "users"), EmptyArr)
    IN  [p    |-> [id    |-> IF id_given THEN Str(Get(payload, "id")) ELSE Uuid4Hex(u + 1),
                   name  |-> Str(name),
                   users |-> [i \in 1..Len(users_payload.v) |-> User_from_dict(users_payload.v[i])]],
         uuid |-> IF id_given THEN u ELSE u + 1]

UserProfile_to_dict(profile) ==
    JObj([id    |-> JStr(profile.id),
          name  |-> JStr(profile.name),
          users |-> JArr([i \in 1..Len(profile.users) |-> User_to_dict(profile.users[i])])])

UserProfile_clone(profile, new_id, name) ==
    [id    |-> new_id,
     name  |-> IF name # <<>> THEN name ELSE profile.name,
     users |-> [i \in 1..Len(profile.users) |-> User_clone(profile.users[i])]]

----------------------------------------------------------------------------
(* ConfigManager: in-memory operations.                                    *)
(* Every operation is an operator from the manager m (and the uuid count   *)
(* u) to an outcome [m, uuid, result, events]: the manager as the call     *)
(* leaves it (also when it raises), the uuid count, "ok" or the kind of    *)
(* ValueError raised, and the notifications raised, in order.              *)

\* ConfigManager.__init__
NewManager ==
    [opnsense_profiles            |-> <<>>,
     user_profiles                |-> <<>>,
     selected_opnsense_profile_id |-> JNull,
     selected_user_profile_id     |-> JNull]

Return(m, u, events) == [m |-> m, uuid |-> u, result |-> "ok", events |-> events]

\* raise ValueError(...) with the manager as it is at that point
Raise(m, u, kind, events) == [m |-> m, uuid |-> u, result |-> kind, events |-> events]

Append1(seq, x) == seq \o <<x>>

RemoveAt(seq, i) == SubSeq(seq, 1, i - 1) \o SubSeq(seq, i + 1, Len(seq))

\* the index of the first profile with this id, 0 when none
\* (get_opnsense_profile / get_user_profile raise ValueError then)
IndexOfId(profiles, profile_id) ==
    LET hits == {i \in 1..Len(profiles) : profiles[i].id = profile_id}
    IN  IF hits = {} THEN 0 ELSE CHOOSE i \in hits : \A j \in hits : i <= j

get_opnsense_profile(m, profile_id) == IndexOfId(m.opnsense_profiles, profile_id)

get_user_profile(m, profile_id) == IndexOfId(m.user_profiles, profile_id)

\* Fault: the name check compares names as written, not ignoring case.
ensure_unique_profile_name_exact_case(profiles, name, exclude_id) ==
    \A i \in 1..Len(profiles) :
        \/ (Truthy(exclude_id) /\ profiles[i].id = exclude_id.v)
        \/ profiles[i].name # name

\* _ensure_unique_opnsense_name / _ensure_unique_user_profile_name:
\* TRUE when the check passes; exclude_id is JNull or JStr(id)
ensure_unique_profile_name(profiles, name, exclude_id) ==
    \A i \in 1..Len(profiles) :
        \/ (Truthy(exclude_id) /\ profiles[i].id = exclude_id.v)
        \/ Lower(profiles[i].name) # Lower(name)

ensure_unique_opnsense_name(m, name, exclude_id) ==
    ensure_unique_profile_name(m.opnsense_profiles, name, exclude_id)

ensure_unique_user_profile_name(m, name, exclude_id) ==
    ensure_unique_profile_name(m.user_profiles, name, exclude_id)

\* _ensure_unique_username: TRUE when the check passes; exclude is JNull or JStr
ensure_unique_username(profile, username, exclude) ==
    \A i \in 1..Len(profile.users) :
        \/ (Truthy(exclude) /\ Lower(profile.users[i].username) = Lower(exclude.v))
        \/ Lower(profile.users[i].username) # Lower(username)

\* Fault: the name is taken as given, without strip().
CleanNameOrDefault_untrimmed(name) == IF name # <<>> THEN name ELSE DEFAULT_PROFILE_NAME

\* (name or "").strip() or DEFAULT_PROFILE_NAME
CleanNameOrDefault(name) == IF Strip(name) # <<>> THEN Strip(name) ELSE DEFAULT_PROFILE_NAME

set_selected_opnsense_profile_id(m, u, profile_id) ==
    IF profile_id = JNull
    THEN IF m.selected_opnsense_profile_id # JNull
         THEN Return([m EXCEPT !.selected_opnsense_profile_id = JNull], u, <<"selection_changed">>)
         ELSE Return(m, u, <<>>)
    ELSE IF get_opnsense_profile(m, profile_id.v) = 0 THEN Raise(m, u, "not_found", <<>>)
    ELSE IF m.selected_opnsense_profile_id # profile_id
         THEN Return([m EXCEPT !.selected_opnsense_profile_id = profile_id], u,
                     <<"selection_changed">>)
         ELSE Return(m, u, <<>>)

\* Fault: the notification is raised also when the pointer keeps its value.
set_selected_user_profile_id_always_notifies(m, u, profile_id) ==
    IF profile_id = JNull
    THEN Return([m EXCEPT !.selected_user_profile_id = JNull], u, <<"selection_changed">>)
    ELSE IF get_user_profile(m, profile_id.v) = 0 THEN Raise(m, u, "not_found", <<>>)
    ELSE Return([m EXCEPT !.selected_user_profile_id = profile_id], u,
                <<"selection_changed">>)

set_selected_user_profile_id(m, u, profile_id) ==
    IF profile_id = JNull
    THEN IF m.selected_user_profile_id # JNull
         THEN Return([m EXCEPT !.selected_user_profile_id = JNull], u, <<"selection_changed">>)
         ELSE Return(m, u, <<>>)
    ELSE IF get_user_profile(m, profile_id.v) = 0 THEN Raise(m, u, "not_found", <<>>)
    ELSE IF m.selected_user_profile_id # profile_id
         THEN Return([m EXCEPT !.selected_user_profile_id = profile_id], u,
                     <<"selection_changed">>)
         ELSE Return(m, u, <<>>)

\* Fault: create selects the new profile also when one was selected.
create_opnsense_profile_always_selects(m, u, name, settings) ==
    LET clean_name == CleanNameOrDefault(name)
    IN  IF ~ensure_unique_opnsense_name(m, clean_name, JNull)
        THEN Raise(m, u, "conflict", <<>>)
        ELSE
        LET payload  == JObj([id       |-> JStr(Uuid4Hex(u + 1)),
                              name     |-> JStr(clean_name),
                              settings |-> IF Truthy(settings) THEN settings ELSE EmptyObj])
            made     == OPNsenseProfile_from_dict(payload, u + 1)
        IN  Return([m EXCEPT !.opnsense_profiles = Append1(@, made.p),
                             !.selected_opnsense_profile_id = JStr(made.p.id)],
                   made.uuid, <<"selection_changed", "opnsense_profiles_changed">>)

\* settings is JNull (omitted) or a dict
create_opnsense_profile(m, u, name, settings) ==
    LET clean_name == CleanNameOrDefault(name)
    IN  IF ~ensure_unique_opnsense_name(m, clean_name, JNull)
        THEN Raise(m, u, "conflict", <<>>)
        ELSE
        LET payload  == JObj([id       |-> JStr(Uuid4Hex(u + 1)),
                              name     |-> JStr(clean_name),
                              settings |-> IF Truthy(settings) THEN settings ELSE EmptyObj])
            made     == OPNsenseProfile_from_dict(payload, u + 1)
            m1       == [m EXCEPT !.opnsense_profiles = Append1(@, made.p)]
            select   == ~Truthy(m.selected_opnsense_profile_id)
            m2       == IF select
                        THEN [m1 EXCEPT !.selected_opnsense_profile_id = JStr(made.p.id)]
                        ELSE m1
        IN  Return(m2, made.uuid,
                   (IF select THEN <<"selection_changed">> ELSE <<>>)
                       \o <<"opnsense_profiles_changed">>)

\* Fault: rename writes the new name before it checks it for a collision.
rename_opnsense_profile_writes_first(m, u, profile_id, new_name) ==
    LET i          == get_opnsense_profile(m, profile_id)
        clean_name == Strip(new_name)
    IN  IF i = 0 THEN Raise(m, u, "not_found", <<>>)
        ELSE IF clean_name = <<>> THEN Raise(m, u, "validation", <<>>)
        ELSE IF ~ensure_unique_opnsense_name(m, clean_name, JStr(profile_id))
             THEN Raise([m EXCEPT !.opnsense_profiles[i].name = clean_name], u, "conflict", <<>>)
        ELSE Return([m EXCEPT !.opnsense_profiles[i].name = clean_name], u,
                    <<"opnsense_profiles_changed">>)

rename_opnsense_profile(m, u, profile_id, new_name) ==
    LET i          == get_opnsense_profile(m, profile_id)
        clean_name == Strip(new_name)
    IN  IF i = 0 THEN Raise(m, u, "not_found", <<>>)
        ELSE IF clean_name = <<>> THEN Raise(m, u, "validation", <<>>)
        ELSE IF ~ensure_unique_opnsense_name(m, clean_name, JStr(profile_id))
             THEN Raise(m, u, "conflict", <<>>)
        ELSE Return([m EXCEPT !.opnsense_profiles[i].name = clean_name], u,
                    <<"opnsense_profiles_changed">>)

\* Fault: delete leaves the selection pointer on the profile it removed.
delete_opnsense_profile_stale_selection(m, u, profile_id) ==
    LET i == get_opnsense_profile(m, profile_id)
    IN  IF Len(m.opnsense_profiles) <= 1 THEN Raise(m, u, "last_profile", <<>>)
        ELSE IF i = 0 THEN Raise(m, u, "not_found", <<>>)
        ELSE Return([m EXCEPT !.opnsense_profiles = RemoveAt(@, i)], u,
                    <<"opnsense_profiles_changed">>)

\* Fault: delete moves the selection to the last remaining profile.
delete_opnsense_profile_selects_last(m, u, profile_id) ==
    LET i == get_opnsense_profile(m, profile_id)
    IN  IF Len(m.opnsense_profiles) <= 1 THEN Raise(m, u, "last_profile", <<>>)
        ELSE IF i = 0 THEN Raise(m, u, "not_found", <<>>)
        ELSE
        LET rest         == RemoveAt(m.opnsense_profiles, i)
            was_selected == m.selected_opnsense_profile_id = JStr(profile_id)
        IN  Return([m EXCEPT !.opnsense_profiles = rest,
                             !.selected_opnsense_profile_id =
                                 IF was_selected THEN JStr(rest[Len(rest)].id) ELSE @],
                   u,
                   <<"opnsense_profiles_changed">>
                       \o (IF was_selected THEN <<"selection_changed">> ELSE <<>>))

delete_opnsense_profile(m, u, profile_id) ==
    LET i == get_opnsense_profile(m, profile_id)
    IN  IF Len(m.opnsense_profiles) <= 1 THEN Raise(m, u, "last_profile", <<>>)
        ELSE IF i = 0 THEN Raise(m, u, "not_found", <<>>)
        ELSE
        LET rest         == RemoveAt(m.opnsense_profiles, i)
            was_selected == m.selected_opnsense_profile_id = JStr(profile_id)
            m1           == [m EXCEPT !.opnsense_profiles = rest]
            m2           == IF was_selected
                            THEN [m1 EXCEPT !.selected_opnsense_profile_id =
                                      IF rest # <<>> THEN JStr(rest[1].id) ELSE JNull]
                            ELSE m1
        IN  Return(m2, u,
                   <<"opnsense_profiles_changed">>
                       \o (IF was_selected THEN <<"selection_changed">> ELSE <<>>))

\* Fault: duplicate selects the clone only when nothing was selected, as
\* create does.
duplicate_opnsense_profile_keeps_selection(m, u, source_profile_id, new_name) ==
    LET i == get_opnsense_profile(m, source_profile_id)
    IN  IF i = 0 THEN Raise(m, u, "not_found", <<>>)
        ELSE
        LET source         == m.opnsense_profiles[i]
            taken          == {m.opnsense_profiles[k].name : k \in 1..Len(m.opnsense_profiles)}
            base_name      == CleanNameOrDefault(IF Truthy(new_name) THEN new_name.v ELSE source.name)
            duplicate_name == make_unique_name(base_name, taken)
            clone          == OPNsenseProfile_clone(source, Uuid4Hex(u + 1), duplicate_name)
            select         == ~Truthy(m.selected_opnsense_profile_id)
        IN  Return([m EXCEPT !.opnsense_profiles = Append1(@, clone),
                             !.selected_opnsense_profile_id =
                                 IF select THEN JStr(clone.id) ELSE @],
                   u + 1,
                   <<"opnsense_profiles_changed">>
                       \o (IF select THEN <<"selection_changed">> ELSE <<>>))

\* new_name is JNull (omitted) or JStr
duplicate_opnsense_profile(m, u, source_profile_id, new_name) ==
    LET i == get_opnsense_profile(m, source_profile_id)
    IN  IF i = 0 THEN Raise(m, u, "not_found", <<>>)
        ELSE
        LET source         == m.opnsense_profiles[i]
            taken          == {m.opnsense_profiles[k].name : k \in 1..Len(m.opnsense_profiles)}
            base_name      == CleanNameOrDefault(IF Truthy(new_name) THEN new_name.v ELSE source.name)
            duplicate_name == make_unique_name(base_name, taken)
            clone          == OPNsenseProfile_clone(source, Uuid4Hex(u + 1), duplicate_name)
        IN  Return([m EXCEPT !.opnsense_profiles = Append1(@, clone),
                             !.selected_opnsense_profile_id = JStr(clone.id)],
                   u + 1, <<"opnsense_profiles_changed", "selection_changed">>)

\* connection is a dict of caller values
update_opnsense_connection(m, u, profile_id, connection) ==
    LET i == get_opnsense_profile(m, profile_id)
    IN  IF i = 0 THEN Raise(m, u, "not_found", <<>>)
        ELSE
        LET settings == m.opnsense_profiles[i].settings
            conn     == GetOr(settings, "connection", EmptyObj)
            written  == [key \in DOMAIN DEFAULT_CONNECTION.v |->
                            LET value == GetOr(connection, key, DEFAULT_CONNECTION.v[key])
                            IN  JStr(IF value.t = "str" THEN Strip(value.v) ELSE Str(value))]
        IN  Return([m EXCEPT !.opnsense_profiles[i].settings =
                        Put(settings, "connection", JObj(written @@ conn.v))],
                   u, <<>>)

\* automation is the caller's payload, stored as it is
update_opnsense_settings(m, u, profile_id, automation) ==
    LET i == get_opnsense_profile(m, profile_id)
    IN  IF i = 0 THEN Raise(m, u, "not_found", <<>>)
        ELSE Return([m EXCEPT !.opnsense_profiles[i].settings = Put(@, "automation", automation)],
                    u, <<>>)

\* users is JNull (omitted) or a list of user dicts
create_user_profile(m, u, name, users) ==
    LET clean_name == CleanNameOrDefault(name)
    IN  IF ~ensure_unique_user_profile_name(m, clean_name, JNull)
        THEN Raise(m, u, "conflict", <<>>)
        ELSE
        LET payload  == JObj([id    |-> JStr(Uuid4Hex(u + 1)),
                              name  |-> JStr(clean_name),
                              users |-> IF Truthy(users) THEN users ELSE EmptyArr])
            made     == UserProfile_from_dict(payload, u + 1)
            m1       == [m EXCEPT !.user_profiles = Append1(@, made.p)]
            select   == ~Truthy(m.selected_user_profile_id)
            m2       == IF select
                        THEN [m1 EXCEPT !.selected_user_profile_id = JStr(made.p.id)]
                        ELSE m1
        IN  Return(m2, made.uuid,
                   (IF select THEN <<"selection_changed">> ELSE <<>>)
                       \o <<"user_profiles_changed">>)

rename_user_profile(m, u, profile_id, new_name) ==
    LET i          == get_user_profile(m, profile_id)
        clean_name == Strip(new_name)
    IN  IF i = 0 THEN Raise(m, u, "not_found", <<>>)
        ELSE IF clean_name = <<>> THEN Raise(m, u, "validation", <<>>)
        ELSE IF ~ensure_unique_user_profile_name(m, clean_name, JStr(profile_id))
             THEN Raise(m, u, "conflict", <<>>)
        ELSE Return([m EXCEPT !.user_profiles[i].name = clean_name], u,
                    <<"user_profiles_changed">>)

\* Fault: delete does not refuse to remove the last user profile.
delete_user_profile_unguarded(m, u, profile_id) ==
    LET i == get_user_profile(m, profile_id)
    IN  IF i = 0 THEN Raise(m, u, "not_found", <<>>)
        ELSE Return([m EXCEPT !.user_profiles = RemoveAt(@, i),
                              !.selected_user_profile_id =
                                  IF @ # JStr(profile_id) THEN @
                                  ELSE IF Len(m.user_profiles) > 1
                                       THEN JStr(RemoveAt(m.user_profiles, i)[1].id)
                                  ELSE JNull],
                    u, <<"user_profiles_changed">>)

delete_user_profile(m, u, profile_id) ==
    LET i == get_user_profile(m, profile_id)
    IN  IF Len(m.user_profiles) <= 1 THEN Raise(m, u, "last_profile", <<>>)
        ELSE IF i = 0 THEN Raise(m, u, "not_found", <<>>)
        ELSE
        LET rest         == RemoveAt(m.user_profiles, i)
            was_selected == m.selected_user_profile_id = JStr(profile_id)
            m1           == [m EXCEPT !.user_profiles = rest]
            m2           == IF was_selected
                            THEN [m1 EXCEPT !.selected_user_profile_id =
                                      IF rest # <<>> THEN JStr(rest[1].id) ELSE JNull]
                            ELSE m1
        IN  Return(m2, u,
                   <<"user_profiles_changed">>
                       \o (IF was_selected THEN <<"selection_changed">> ELSE <<>>))

duplicate_user_profile(m, u, source_profile_id, new_name) ==
    LET i == get_user_profile(m, source_profile_id)
    IN  IF i = 0 THEN Raise(m, u, "not_found", <<>>)
        ELSE
        LET source         == m.user_profiles[i]
            taken          == {m.user_profiles[k].name : k \in 1..Len(m.user_profiles)}
            base_name      == CleanNameOrDefault(IF Truthy(new_name) THEN new_name.v ELSE source.name)
            duplicate_name == make_unique_name(base_name, taken)
            clone          == UserProfile_clone(source, Uuid4Hex(u + 1), duplicate_name)
        IN  Return([m EXCEPT !.user_profiles = Append1(@, clone),
                             !.selected_user_profile_id = JStr(clone.id)],
                   u + 1, <<"user_profiles_changed", "selection_changed", "user_list_changed">>)

\* the index of the first user whose username equals name ignoring case, 0 when none
IndexOfUser(users, name) ==
    LET hits == {i \in 1..Len(users) : Lower(users[i].username) = Lower(name)}
    IN  IF hits = {} THEN 0 ELSE CHOOSE i \in hits : \A j \in hits : i <= j

\* user is a User record (original_username: JNull or JStr)
add_user(m, u, user_profile_id, user) ==
    LET i        == get_user_profile(m, user_profile_id)
        username == Strip(user.username)
    IN  IF i = 0 THEN Raise(m, u, "not_found", <<>>)
        ELSE IF username = <<>> THEN Raise(m, u, "validation", <<>>)
        ELSE IF ~ensure_unique_username(m.user_profiles[i], username, JNull)
             THEN Raise(m, u, "conflict", <<>>)
        ELSE Return([m EXCEPT !.user_profiles[i].users =
                         Append1(@, User_from_dict(User_to_dict(user)))],
                    u, <<"user_list_changed">>)

\* Fault: the matched entry is removed and the new one appended at the end.
update_user_moves_to_end(m, u, user_profile_id, user) ==
    LET i            == get_user_profile(m, user_profile_id)
        original     == Strip(IF Truthy(user.original_username)
                              THEN user.original_username.v ELSE user.username)
        new_username == Strip(user.username)
    IN  IF i = 0 THEN Raise(m, u, "not_found", <<>>)
        ELSE IF original = <<>> THEN Raise(m, u, "validation", <<>>)
        ELSE IF new_username = <<>> THEN Raise(m, u, "validation", <<>>)
        ELSE
        LET profile     == m.user_profiles[i]
            match_index == IndexOfUser(profile.users, original)
        IN  IF match_index = 0 THEN Raise(m, u, "not_found", <<>>)
            ELSE IF /\ Lower(new_username) # Lower(original)
                    /\ ~ensure_unique_username(profile, new_username, JStr(original))
                 THEN Raise(m, u, "conflict", <<>>)
            ELSE Return([m EXCEPT !.user_profiles[i].users =
                             Append1(RemoveAt(@, match_index),
                                     User_from_dict(User_to_dict(user)))],
                        u, <<"user_list_changed">>)

update_user(m, u, user_profile_id, user) ==
    LET i            == get_user_profile(m, user_profile_id)
        original     == Strip(IF Truthy(user.original_username)
                              THEN user.original_username.v ELSE user.username)
        new_username == Strip(user.username)
    IN  IF i = 0 THEN Raise(m, u, "not_found", <<>>)
        ELSE IF original = <<>> THEN Raise(m, u, "validation", <<>>)
        ELSE IF new_username = <<>> THEN Raise(m, u, "validation", <<>>)
        ELSE
        LET profile     == m.user_profiles[i]
            match_index == IndexOfUser(profile.users, original)
        IN  IF match_index = 0 THEN Raise(m, u, "not_found", <<>>)
            ELSE IF /\ Lower(new_username) # Lower(original)
                    /\ ~ensure_unique_username(profile, new_username, JStr(original))
                 THEN Raise(m, u, "conflict", <<>>)
            ELSE Return([m EXCEPT !.user_profiles[i].users[match_index] =
                             User_from_dict(User_to_dict(user))],
                        u, <<"user_list_changed">>)

delete_user(m, u, user_profile_id, username) ==
    LET i == get_user_profile(m, user_profile_id)
    IN  IF i = 0 THEN Raise(m, u, "not_found", <<>>)
        ELSE
        LET idx == IndexOfUser(m.user_profiles[i].users, username)
        IN  IF idx = 0 THEN Raise(m, u, "not_found", <<>>)
            ELSE Return([m EXCEPT !.user_profiles[i].users = RemoveAt(@, idx)],
                        u, <<"user_list_changed">>)

\* new_username is JNull (omitted) or JStr
duplicate_user(m, u, user_profile_id, username, new_username) ==
    LET i == get_user_profile(m, user_profile_id)
    IN  IF i = 0 THEN Raise(m, u, "not_found", <<>>)
        ELSE
        LET users == m.user_profiles[i].users
            idx   == IndexOfUser(users, username)
        IN  IF idx = 0 THEN Raise(m, u, "not_found", <<>>)
            ELSE
            LET existing == users[idx]
                taken    == {users[k].username : k \in 1..Len(users)}
                wanted   == Strip(IF Truthy(new_username) THEN new_username.v
                                  ELSE existing.username)
                base     == IF wanted # <<>> THEN wanted ELSE existing.username
                clone    == [User_clone(existing) EXCEPT
                                 !.username = make_unique_username(base, taken)]
            IN  Return([m EXCEPT !.user_profiles[i].users = Append1(@, clone)],
                       u, <<"user_list_changed">>)

----------------------------------------------------------------------------
(* ConfigManager: save, load and the migrations.                           *)
(* A file is [kind, doc]: kind "absent" (no such file), "malformed" (not   *)
(* JSON: json.load raises JSONDecodeError) or "json" with its document.    *)

AbsentFile == [kind |-> "absent", doc |-> JNull]
MalformedFile == [kind |-> "malformed", doc |-> JNull]
JsonFile(doc) == [kind |-> "json", doc |-> doc]

\* Fault: save() leaves the selected user profile out of the document.
save_data_without_user_selection(m) ==
    JObj([opnsense_profiles |->
              JArr([i \in 1..Len(m.opnsense_profiles) |->
                       OPNsenseProfile_to_dict(m.opnsense_profiles[i])]),
          user_profiles |->
              JArr([i \in 1..Len(m.user_profiles) |-> UserProfile_to_dict(m.user_profiles[i])]),
          selected_opnsense_profile_id |-> m.selected_opnsense_profile_id])

\* the document save() writes to the primary store
save_data(m) ==
    JObj([opnsense_profiles |->
              JArr([i \in 1..Len(m.opnsense_profiles) |->
                       OPNsenseProfile_to_dict(m.opnsense_profiles[i])]),
          user_profiles |->
              JArr([i \in 1..Len(m.user_profiles) |-> UserProfile_to_dict(m.user_profiles[i])]),
          selected_opnsense_profile_id |-> m.selected_opnsense_profile_id,
          selected_user_profile_id     |-> m.selected_user_profile_id])

\* save(): json.dump to the file, read back by json.load as the same document
save(m) == JsonFile(save_data(m))

\* one step of [X.from_dict(item) for item in items]: made is [p, uuid]
add_made(acc, made) == [ps |-> Append1(acc.ps, made.p), uuid |-> made.uuid]

NoneMade(u) == [ps |-> <<>>, uuid |-> u]

\* [OPNsenseProfile.from_dict(item) for item in items[k..]], threading the uuid count
RECURSIVE opnsense_profiles_from(_, _, _)
opnsense_profiles_from(items, acc, k) ==
    IF k > Len(items) THEN acc
    ELSE opnsense_profiles_from(items,
             add_made(acc, OPNsenseProfile_from_dict(items[k], acc.uuid)), k + 1)

RECURSIVE user_profiles_from(_, _, _)
user_profiles_from(items, acc, k) ==
    IF k > Len(items) THEN acc
    ELSE user_profiles_from(items,
             add_made(acc, UserProfile_from_dict(items[k], acc.uuid)), k + 1)

IdsOf(profiles) == {profiles[i].id : i \in 1..Len(profiles)}

\* if not self._opnsense_profiles: a default profile with a fresh id
with_default_opnsense(ps, u) ==
    IF ps # <<>> THEN [ps |-> ps, uuid |-> u]
    ELSE [ps   |-> <<OPNsenseProfile_from_dict(
                         JObj([id       |-> JStr(Uuid4Hex(u + 1)),
                               name     |-> JStr(DEFAULT_PROFILE_NAME),
                               settings |-> EmptyObj]), u + 1).p>>,
          uuid |-> u + 1]

\* if not self._user_profiles: a default user profile with a fresh id
with_default_user(ps, u) ==
    IF ps # <<>> THEN [ps |-> ps, uuid |-> u]
    ELSE [ps   |-> <<UserProfile_from_dict(
                         JObj([id    |-> JStr(Uuid4Hex(u + 1)),
                               name  |-> JStr(DEFAULT_PROFILE_NAME),
                               users |-> EmptyArr]), u + 1).p>>,
          uuid |-> u + 1]

\* the stored selection when it names a loaded profile, else the first profile
selection_or_first(selected_id, profiles) ==
    IF Truthy(selected_id) /\ selected_id.t = "str" /\ selected_id.v \in IdsOf(profiles)
    THEN selected_id
    ELSE JStr(profiles[1].id)

\* _load_from_payload, last part: the two selection pointers
load_selection(payload, opnsense_profiles, made_u) ==
    [m |-> [opnsense_profiles |-> opnsense_profiles,
            user_profiles     |-> made_u.ps,
            selected_opnsense_profile_id |->
                selection_or_first(Get(payload, "selected_opnsense_profile_id"),
                                   opnsense_profiles),
            selected_user_profile_id |->
                selection_or_first(Get(payload, "selected_user_profile_id"), made_u.ps)],
     uuid |-> made_u.uuid]

\* _load_from_payload, the default user profile
load_default_user(payload, made_o, user_ps) ==
    load_selection(payload, made_o.ps, with_default_user(user_ps, made_o.uuid))

\* _load_from_payload, the default OPNsense profile
load_default_opnsense(payload, opnsense_ps, made_u) ==
    load_default_user(payload, with_default_opnsense(opnsense_ps, made_u.uuid), made_u.ps)

\* _load_from_payload, the user profile list
load_user_profiles(payload, made_o) ==
    load_default_opnsense(payload, made_o.ps,
        user_profiles_from(Or(Get(payload, "user_profiles"), EmptyArr).v,
                           NoneMade(made_o.uuid), 1))

\* _load_from_payload: the manager built from a current-shape payload
load_from_payload(payload, u) ==
    load_user_profiles(payload,
        opnsense_profiles_from(Or(Get(payload, "opnsense_profiles"), EmptyArr).v,
                               NoneMade(u), 1))

\* the lists a migration has built so far
NoneMigrated(u) ==
    [opnsense_profiles |-> <<>>, user_profiles |-> <<>>,
     taken_opnsense |-> {}, taken_user |-> {}, uuid |-> u]

\* one pass of a migration loop: both dicts appended, both names taken
add_migrated(acc, opnsense_profile, user_profile, u) ==
    [opnsense_profiles |-> Append1(acc.opnsense_profiles, opnsense_profile),
     user_profiles     |-> Append1(acc.user_profiles, user_profile),
     taken_opnsense    |-> acc.taken_opnsense \cup {opnsense_profile.v["name"].v},
     taken_user        |-> acc.taken_user \cup {user_profile.v["name"].v},
     uuid              |-> u]

\* the payload a list migration returns; selected is the index of the
\* OPNsense profile it selects
migrated_data(done, selected) ==
    [data |-> JObj([opnsense_profiles |-> JArr(done.opnsense_profiles),
                    user_profiles     |-> JArr(done.user_profiles),
                    selected_opnsense_profile_id |-> done.opnsense_profiles[selected].v["id"],
                    selected_user_profile_id     |-> done.user_profiles[1].v["id"]]),
     uuid |-> done.uuid, result |-> "ok"]

\* the for-loop of _load_from_split_files over profiles_payload[k..]
RECURSIVE split_items_from(_, _, _, _, _)
split_items_from(items, settings_payload, users_payload, acc, k) ==
    IF k > Len(items) THEN acc
    ELSE split_items_from(items, settings_payload, users_payload,
             add_migrated(acc,
                 JObj([id       |-> JStr(Uuid4Hex(acc.uuid + 1)),
                       name     |-> JStr(make_unique_name(
                                        Or(Get(items[k], "ProfileName"),
                                           JStr(DEFAULT_PROFILE_NAME)).v,
                                        acc.taken_opnsense)),
                       settings |-> JObj([connection |->
                                              JObj([key \in DOMAIN DEFAULT_CONNECTION.v |->
                                                       GetOr(items[k], key,
                                                             DEFAULT_CONNECTION.v[key])]),
                                          automation |-> settings_payload])]),
                 JObj([id    |-> JStr(Uuid4Hex(acc.uuid + 2)),
                       name  |-> JStr(make_unique_name(
                                        Or(Get(items[k], "ProfileName"),
                                           JStr(DEFAULT_PROFILE_NAME)).v,
                                        acc.taken_user)),
                       users |-> users_payload]),
                 acc.uuid + 2),
             k + 1)

\* Fault: the legacy file is not read.
legacy_list_unread(file, key) == EmptyArr

\* the payload read from one legacy file: Or(doc.get(key), []) when the file
\* exists and parses, [] otherwise
legacy_list(file, key) ==
    IF file.kind = "json" THEN Or(Get(file.doc, key), EmptyArr) ELSE EmptyArr

\* if not profiles_payload: one default entry
split_profiles_payload(read_profiles) ==
    IF Truthy(read_profiles)
    THEN read_profiles
    ELSE JArr(<<JObj(("ProfileName" :> JStr(DEFAULT_PROFILE_NAME))
                     @@ new_connection_defaults.v)>>)

\* _load_from_split_files: the current-shape payload built from the legacy files
load_from_split_files(files, u) ==
    migrated_data(
        split_items_from(split_profiles_payload(legacy_list(files.profiles, "profiles")).v,
                         IF files.settings.kind = "json" /\ IsDict(files.settings.doc)
                         THEN files.settings.doc
                         ELSE new_automation_defaults,
                         legacy_list(files.users, "users"),
                         NoneMigrated(u), 1),
        1)

\* the uuid count after str(item.get("id") or uuid.uuid4().hex)
uuid_after_id(item, u) == IF Truthy(Get(item, "id")) THEN u ELSE u + 1

\* str(item.get("id") or uuid.uuid4().hex), u values drawn before
id_or_uuid(item, u) == IF Truthy(Get(item, "id")) THEN Str(Get(item, "id")) ELSE Uuid4Hex(u + 1)

\* the "settings" dict _migrate_profiles_payload writes for a bundle's settings
migrated_settings(settings) ==
    JObj([connection |-> Or(Get(settings, "connection"), EmptyObj),
          automation |-> Or(Get(settings, "automation"), EmptyObj)])

\* the for-loop of _migrate_profiles_payload over profiles_payload[k..]
RECURSIVE migrate_items_from(_, _, _)
migrate_items_from(items, acc, k) ==
    IF k > Len(items) THEN acc
    ELSE migrate_items_from(items,
             add_migrated(acc,
                 JObj([id       |-> JStr(id_or_uuid(items[k], acc.uuid)),
                       name     |-> JStr(make_unique_name(
                                        Or(Get(items[k], "name"), JStr(DEFAULT_PROFILE_NAME)).v,
                                        acc.taken_opnsense)),
                       settings |-> migrated_settings(Or(Get(items[k], "settings"), EmptyObj))]),
                 JObj([id    |-> JStr(Uuid4Hex(uuid_after_id(items[k], acc.uuid) + 1)),
                       name  |-> JStr(make_unique_name(
                                        Or(Get(items[k], "name"), JStr(DEFAULT_PROFILE_NAME)).v,
                                        acc.taken_user)),
                       users |-> Or(Get(items[k], "users"), EmptyArr)]),
                 uuid_after_id(items[k], acc.uuid) + 1),
             k + 1)

\* the bundles whose id equals selected_id
bundle_hits(items, selected_id) ==
    {k \in 1..Len(items) :
        /\ Truthy(selected_id)
        /\ selected_id.t = "str"
        /\ Truthy(Get(items[k], "id"))
        /\ Str(Get(items[k], "id")) = selected_id.v}

\* the least member of a set of indices, 1 when it is empty
first_of(hits) == IF hits = {} THEN 1 ELSE CHOOSE k \in hits : \A j \in hits : k <= j

\* the index of the first legacy bundle whose id equals selected_id; the first
\* bundle when there is none (selected_opnsense_id or opnsense_profiles[0]["id"])
selected_bundle(items, selected_id) == first_of(bundle_hits(items, selected_id))

\* the return of _migrate_profiles_payload: IndexError at opnsense_profiles[0]
\* when the store holds no bundle
migrate_profiles_return(payload, done) ==
    IF done.opnsense_profiles = <<>>
    THEN [data |-> payload, uuid |-> done.uuid, result |-> "IndexError"]
    ELSE migrated_data(done,
             selected_bundle(Or(Get(payload, "profiles"), EmptyArr).v,
                             Or(Get(payload, "selected_profile_id"),
                                Get(payload, "active_profile_id"))))

migrate_profiles_payload(payload, u) ==
    migrate_profiles_return(payload,
        migrate_items_from(Or(Get(payload, "profiles"), EmptyArr).v, NoneMigrated(u), 1))

\* the two dicts _migrate_single_profile_payload builds, ids already drawn
single_profile_data(payload, profile_id, user_profile_id, name) ==
    JObj([opnsense_profiles |-> JArr(<<
              JObj([id       |-> JStr(profile_id),
                    name     |-> name,
                    settings |-> JObj([connection |-> new_connection_defaults,
                                       automation |-> Or(Or(Get(payload, "settings"), EmptyObj),
                                                         new_automation_defaults)])])>>),
          user_profiles |-> JArr(<<
              JObj([id    |-> JStr(user_profile_id),
                    name  |-> name,
                    users |-> Or(Get(payload, "users"), EmptyArr)])>>),
          selected_opnsense_profile_id |-> JStr(profile_id),
          selected_user_profile_id     |-> JStr(user_profile_id)])

\* Fault: the user profile is given the id of the OPNsense profile.
migrate_single_profile_payload_shared_id(payload, u) ==
    [data |-> single_profile_data(payload,
                  id_or_uuid(payload, u),
                  id_or_uuid(payload, u),
                  Or(Get(payload, "name"), JStr(DEFAULT_PROFILE_NAME))),
     uuid |-> uuid_after_id(payload, u), result |-> "ok"]

migrate_single_profile_payload(payload, u) ==
    [data |-> single_profile_data(payload,
                  id_or_uuid(payload, u),
                  Uuid4Hex(uuid_after_id(payload, u) + 1),
                  Or(Get(payload, "name"), JStr(DEFAULT_PROFILE_NAME))),
     uuid |-> uuid_after_id(payload, u) + 1, result |-> "ok"]

\* json.load of the primary store; {} when it does not parse
read_store(file) == IF file.kind = "json" THEN file.doc ELSE EmptyObj

\* Fault: _load looks for the single-axis key before the current keys.
store_shape_profiles_first(file) ==
    IF file.kind = "absent" THEN "split_files"
    ELSE IF Has(read_store(file), "profiles") THEN "profiles"
    ELSE IF Has(read_store(file), "opnsense_profiles") /\ Has(read_store(file), "user_profiles")
         THEN "current"
    ELSE IF Has(read_store(file), "settings") /\ Has(read_store(file), "users")
         THEN "single_profile"
    ELSE "empty"

\* the shape _load recognises in the primary store file
store_shape(file) ==
    IF file.kind = "absent" THEN "split_files"
    ELSE IF Has(read_store(file), "opnsense_profiles") /\ Has(read_store(file), "user_profiles")
         THEN "current"
    ELSE IF Has(read_store(file), "profiles") THEN "profiles"
    ELSE IF Has(read_store(file), "settings") /\ Has(read_store(file), "users")
         THEN "single_profile"
    ELSE "empty"

MigratingShapes == {"profiles", "single_profile", "split_files"}

\* the payload _load hands to _load_from_payload, by the shape of the store
load_step(shape, data, files, u) ==
    CASE shape = "current"        -> [data |-> data, uuid |-> u, result |-> "ok"]
      [] shape = "profiles"       -> migrate_profiles_payload(data, u)
      [] shape = "single_profile" -> migrate_single_profile_payload(data, u)
      [] shape = "empty"          ->
             [data |-> JObj([opnsense_profiles |-> EmptyArr, user_profiles |-> EmptyArr]),
              uuid |-> u, result |-> "ok"]
      [] shape = "split_files"    -> load_from_split_files(files, u)

\* Fault: _load does not save after a migration.
load_done_without_save(file, migrated, built) ==
    [m |-> built.m, uuid |-> built.uuid, result |-> "ok",
     migrated |-> migrated, wrote |-> FALSE, store |-> file]

\* _load after _load_from_payload: if migrated: self.save()
load_done(file, migrated, built) ==
    [m |-> built.m, uuid |-> built.uuid, result |-> "ok",
     migrated |-> migrated, wrote |-> migrated,
     store |-> IF migrated THEN save(built.m) ELSE file]

\* _load from the payload on: an exception leaves no manager and no write
load_payload(file, migrated, step) ==
    IF step.result # "ok"
    THEN [m |-> NewManager, uuid |-> step.uuid, result |-> step.result,
          migrated |-> migrated, wrote |-> FALSE, store |-> file]
    ELSE load_done(file, migrated, load_from_payload(step.data, step.uuid))

\* ConfigManager.load(): the manager, the store file afterwards, whether a
\* migration ran and whether save() wrote the store
load(file, files, u) ==
    load_payload(file, store_shape(file) \in MigratingShapes,
                 load_step(store_shape(file), read_store(file), files, u))

----------------------------------------------------------------------------
(* ConfigManager: the legacy export.                                       *)
(* export_legacy_files returns [files, result]: the three legacy files as  *)
(* the call leaves them (also when it raises) and "ok" or the kind of      *)
(* ValueError raised.  It changes nothing in the manager.                  *)

\* get_selected_opnsense_profile / get_selected_user_profile: the index of the
\* selected profile, 0 for None
get_selected_profile(profiles, selected_id) ==
    IF ~Truthy(selected_id) THEN 0 ELSE IndexOfId(profiles, selected_id.v)

\* Fault: the first profile is taken whatever is selected.
resolve_profile_ignoring_selection(profiles, selected_id, profile_id) ==
    IF Truthy(profile_id) THEN IndexOfId(profiles, profile_id.v)
    ELSE IF profiles = <<>> THEN 0
    ELSE 1

\* _resolve_opnsense_profile / _resolve_user_profile: the index of the target
\* profile, 0 when the call raises ValueError
resolve_profile(profiles, selected_id, profile_id) ==
    IF Truthy(profile_id) THEN IndexOfId(profiles, profile_id.v)
    ELSE IF get_selected_profile(profiles, selected_id) # 0
         THEN get_selected_profile(profiles, selected_id)
    ELSE IF profiles = <<>> THEN 0
    ELSE 1

\* Fault: the record is written without its ProfileName.
legacy_profile_without_name(profile) ==
    JObj(GetOr(profile.settings, "connection", EmptyObj).v)

\* {"ProfileName": profile.name} updated with the profile's connection settings
legacy_profile(profile) ==
    JObj(GetOr(profile.settings, "connection", EmptyObj).v
             @@ ("ProfileName" :> JStr(profile.name)))

\* what export_legacy_files dumps to config.profiles.json
legacy_profiles_file(m) ==
    JsonFile(JObj([profiles |->
        JArr([i \in 1..Len(m.opnsense_profiles) |-> legacy_profile(m.opnsense_profiles[i])])]))

\* what export_legacy_files dumps to config.settings.json
legacy_settings_file(target_opnsense) ==
    JsonFile(GetOr(target_opnsense.settings, "automation", EmptyObj))

\* what export_legacy_files dumps to config.users.json
legacy_users_file(users) ==
    JsonFile(JObj([users |-> JArr([i \in 1..Len(users) |-> User_to_legacy_dict(users[i])])]))

\* next(user for user in users if user.username.lower() == username.lower()):
\* the index of the first match, 0 for None
matched_user(users, username) ==
    LET hits == {i \in 1..Len(users) : Lower(users[i].username) = Lower(username)}
    IN  IF hits = {} THEN 0 ELSE first_of(hits)

\* Fault: a requested user that is not there is exported as an empty list.
export_users_without_check(files, users, username) ==
    IF ~Truthy(username)
    THEN [files |-> [files EXCEPT !.users = legacy_users_file(users)], result |-> "ok"]
    ELSE [files |-> [files EXCEPT !.users =
                         legacy_users_file(SelectSeq(users,
                             LAMBDA user : Lower(user.username) = Lower(username.v)))],
          result |-> "ok"]

\* export_legacy_files, the users part; users is the target profile's list
export_users(files, users, username) ==
    IF ~Truthy(username)
    THEN [files |-> [files EXCEPT !.users = legacy_users_file(users)], result |-> "ok"]
    ELSE IF matched_user(users, username.v) = 0
         THEN [files |-> files, result |-> "user_not_found"]
    ELSE [files |-> [files EXCEPT !.users =
                         legacy_users_file(<<users[matched_user(users, username.v)]>>)],
          result |-> "ok"]

\* export_legacy_files from the first dump on; target_user is 0 when the
\* manager holds no user profile
export_files(m, files, target_opnsense, target_user, username) ==
    IF target_user = 0
    THEN [files |-> [files EXCEPT !.profiles = legacy_profiles_file(m),
                                  !.settings = legacy_settings_file(
                                                   m.opnsense_profiles[target_opnsense]),
                                  !.users    = legacy_users_file(<<>>)],
          result |-> "ok"]
    ELSE export_users([files EXCEPT !.profiles = legacy_profiles_file(m),
                                    !.settings = legacy_settings_file(
                                                     m.opnsense_profiles[target_opnsense])],
                      m.user_profiles[target_user].users, username)

\* Fault: a manager without OPNsense profiles exports empty files.
export_legacy_files_unguarded(m, files, opnsense_profile_id, user_profile_id, username) ==
    IF m.opnsense_profiles = <<>>
    THEN [files |-> [files EXCEPT !.profiles = legacy_profiles_file(m),
                                  !.users    = legacy_users_file(<<>>)],
          result |-> "ok"]
    ELSE export_files(m, files,
             resolve_profile(m.opnsense_profiles, m.selected_opnsense_profile_id,
                             opnsense_profile_id),
             resolve_profile(m.user_profiles, m.selected_user_profile_id, user_profile_id),
             username)

export_legacy_files(m, files, opnsense_profile_id, user_profile_id, username) ==
    IF m.opnsense_profiles = <<>>
    THEN [files |-> files, result |-> "no_profiles"]
    ELSE IF resolve_profile(m.opnsense_profiles, m.selected_opnsense_profile_id,
                            opnsense_profile_id) = 0
         THEN [files |-> files, result |-> "not_found"]
    ELSE IF /\ m.user_profiles # <<>>
            /\ resolve_profile(m.user_profiles, m.selected_user_profile_id,
                               user_profile_id) = 0
         THEN [files |-> files, result |-> "not_found"]
    ELSE export_files(m, files,
             resolve_profile(m.opnsense_profiles, m.selected_opnsense_profile_id,
                             opnsense_profile_id),
             resolve_profile(m.user_profiles, m.selected_user_profile_id, user_profile_id),
             username)

----------------------------------------------------------------------------
(* Inputs: the store contents a run may start from and the arguments the   *)
(* calls are made with.  Short strings stand for arbitrary ones; they are  *)
(* chosen so that case, surrounding whitespace, emptiness, missing keys,   *)
(* ill-typed values and repeated ids all occur.                            *)

S_a   == <<"a">>
S_A   == <<"A">>
S_b   == <<"b">>
S_x   == <<"x">>
S_y   == <<"y">>
S_p   == <<"p">>
S_q   == <<"q">>
S_bob == <<"b", "o", "b">>
S_al  == <<"a", "l">>

UserDict(username, password) ==
    JObj([username |-> JStr(username), password |-> JStr(password),
          full_name |-> JStr(<<"F">>), email |-> JStr(<<"e">>)])

LegacyUserDict(username, password) ==
    JObj([Name |-> JStr(username), Password |-> JStr(password),
          Full |-> JStr(<<"F">>), Email |-> JStr(<<"e">>)])

\* an automation object with some top-level and some nested keys only
PartialAutomation ==
    JObj([GroupName |-> JStr(<<"g">>),
          Lifetimes |-> JObj([CALifetimeDays |-> JInt(1)])])

\* an automation object whose Lifetimes group is not an object
NullGroupAutomation == JObj([GroupName |-> JStr(<<"g">>), Lifetimes |-> JNull])

\* a complete automation object that differs from the defaults
CustomAutomation ==
    JObj([DEFAULT_AUTOMATION.v EXCEPT
              !["GroupName"] = JStr(<<"g">>),
              !["Lifetimes"] = JObj([CALifetimeDays         |-> JInt(1),
                                     ServerCertLifetimeDays |-> JInt(2),
                                     ClientCertLifetimeDays |-> JInt(3)])])

PartialConnection == JObj([ApiKey |-> JStr(<<" ", "k", " ">>), SshUser |-> JStr(<<"r">>)])

\* a current-shape store: two profiles of each kind, complete and partial settings
CurrentStore ==
    JObj([opnsense_profiles |-> JArr(<<
              JObj([id |-> JStr(S_x), name |-> JStr(S_a),
                    settings |-> JObj([connection |-> DEFAULT_CONNECTION,
                                       automation |-> CustomAutomation])]),
              JObj([id |-> JStr(S_y), name |-> JStr(S_b),
                    settings |-> JObj([connection |-> PartialConnection,
                                       automation |-> PartialAutomation])])>>),
          user_profiles |-> JArr(<<
              JObj([id |-> JStr(S_p), name |-> JStr(S_a),
                    users |-> JArr(<<UserDict(S_bob, <<"1">>), UserDict(S_al, <<"2">>)>>)]),
              JObj([id |-> JStr(S_q), name |-> JStr(S_b), users |-> EmptyArr])>>),
          selected_opnsense_profile_id |-> JStr(S_y),
          selected_user_profile_id     |-> JStr(S_p)])

\* a current-shape store as hand-edited: a repeated id on each axis, a name with
\* surrounding whitespace, an ill-typed group, stale and missing pointers
EditedStore ==
    JObj([opnsense_profiles |-> JArr(<<
              JObj([id |-> JStr(S_x), name |-> JStr(S_a),
                    settings |-> JObj([automation |-> NullGroupAutomation])]),
              JObj([id |-> JStr(S_x), name |-> JStr(<<" ", "b">>)])>>),
          user_profiles |-> JArr(<<
              JObj([id |-> JStr(S_p), name |-> JStr(S_a),
                    users |-> JArr(<<UserDict(S_bob, <<"1">>)>>)]),
              JObj([id |-> JStr(S_p), name |-> JStr(S_b),
                    users |-> JArr(<<LegacyUserDict(S_al, <<"2">>)>>)])>>),
          selected_opnsense_profile_id |-> JStr(<<"g", "o", "n", "e">>)])

\* a single-axis (generation B) store: two bundles with case-equal names
ProfilesStore ==
    JObj([profiles |-> JArr(<<
              JObj([id |-> JStr(S_x), name |-> JStr(S_a),
                    settings |-> JObj([connection |-> PartialConnection,
                                       automation |-> PartialAutomation]),
                    users |-> JArr(<<UserDict(S_bob, <<"1">>)>>)]),
              JObj([id |-> JStr(S_y), name |-> JStr(S_A),
                    settings |-> JObj([automation |-> CustomAutomation]),
                    users |-> JArr(<<UserDict(S_al, <<"2">>), UserDict(S_bob, <<"3">>)>>)])>>),
          active_profile_id |-> JStr(S_y)])

\* a single-axis store with no bundle
NoBundleStore == JObj([profiles |-> EmptyArr])

\* a flat single-profile (generation A) store
SingleStore ==
    JObj([id |-> JStr(S_x), name |-> JStr(<<"N">>),
          settings |-> PartialAutomation,
          users |-> JArr(<<UserDict(S_bob, <<"1">>)>>)])

\* a flat single-profile store without id, name or settings
BareSingleStore == JObj([settings |-> EmptyObj, users |-> EmptyArr])

\* a store that matches every shape: the current keys next to a single-axis
\* bundle list and the flat single-profile keys
MixedStore ==
    JObj([opnsense_profiles |-> JArr(<<JObj([id |-> JStr(S_x), name |-> JStr(S_a)])>>),
          user_profiles     |-> EmptyArr,
          profiles |-> JArr(<<JObj([id |-> JStr(S_y), name |-> JStr(S_b)])>>),
          settings |-> PartialAutomation,
          users    |-> JArr(<<UserDict(S_bob, <<"1">>)>>)])

\* a store with one of the two current keys only, a bundle list and the flat
\* single-profile keys
BundleAndFlatStore ==
    JObj([opnsense_profiles |-> JArr(<<JObj([id |-> JStr(S_x), name |-> JStr(S_a)])>>),
          profiles |-> JArr(<<JObj([id |-> JStr(S_y), name |-> JStr(S_b),
                                    users |-> JArr(<<UserDict(S_al, <<"2">>)>>)])>>),
          name     |-> JStr(<<"N">>),
          settings |-> PartialAutomation,
          users    |-> JArr(<<UserDict(S_bob, <<"1">>)>>)])

NoLegacy == [profiles |-> AbsentFile, settings |-> AbsentFile, users |-> AbsentFile]

\* the three legacy files as the export writes them
LegacyFiles ==
    [profiles |-> JsonFile(JObj([profiles |-> JArr(<<
                      JObj(("ProfileName" :> JStr(S_a)) @@ DEFAULT_CONNECTION.v),
                      JObj([ProfileName |-> JStr(S_A), ApiKey |-> JStr(<<"k">>)])>>)])),
     settings |-> JsonFile(PartialAutomation),
     users    |-> JsonFile(JObj([users |-> JArr(<<LegacyUserDict(S_bob, <<"1">>),
                                                  LegacyUserDict(S_al, <<"2">>)>>)]))]

BrokenLegacy == [profiles |-> MalformedFile, settings |-> MalformedFile, users |-> MalformedFile]

\* the file systems a run may start from: <<primary store, legacy files>>
StartFiles ==
    << <<AbsentFile, NoLegacy>>,
       <<AbsentFile, LegacyFiles>>,
       <<AbsentFile, BrokenLegacy>>,
       <<MalformedFile, LegacyFiles>>,
       <<JsonFile(EmptyObj), NoLegacy>>,
       <<JsonFile(CurrentStore), NoLegacy>>,
       <<JsonFile(EditedStore), NoLegacy>>,
       <<JsonFile(ProfilesStore), NoLegacy>>,
       <<JsonFile(NoBundleStore), NoLegacy>>,
       <<JsonFile(SingleStore), NoLegacy>>,
       <<JsonFile(BareSingleStore), NoLegacy>>,
       <<JsonFile(MixedStore), LegacyFiles>>,
       <<JsonFile(BundleAndFlatStore), LegacyFiles>> >>

\* profile names given to rename
NameInputs == << <<>>, <<" ", "A", " ">>, S_b >>

\* new_name / new_username given to the duplicate operations
CopyNameInputs == << JNull, JStr(S_a) >>

\* (name, settings) given to create_opnsense_profile
CreateOpnsenseInputs ==
    << <<NameInputs[1], JNull>>,
       <<NameInputs[2], JNull>>,
       <<NameInputs[3], JObj([automation |-> PartialAutomation])>> >>

\* payloads given to update_opnsense_settings
AutomationInputs == << CustomAutomation, PartialAutomation >>

\* payloads given to update_opnsense_connection
ConnectionInputs == << PartialConnection >>

\* (name, seed users) given to create_user_profile
CreateUserProfileInputs ==
    << <<NameInputs[1], JNull>>,
       <<NameInputs[2], JArr(<<UserDict(S_bob, <<"1">>), LegacyUserDict(S_al, <<"2">>)>>)>>,
       <<NameInputs[3], JArr(<<UserDict(S_bob, <<"1">>),
                               UserDict(<<"B", "o", "b">>, <<"2">>)>>)>> >>

UserInput(username, password, original_username) ==
    [User(username, password, <<"F">>, <<"e">>) EXCEPT !.original_username = original_username]

\* users given to add_user
AddUserInputs ==
    << UserInput(<<"b", "o", "b", " ">>, <<"1">>, JNull),
       UserInput(<<"A", "l">>, <<"2">>, JNull),
       UserInput(<<" ">>, <<"3">>, JNull) >>

\* users given to update_user
UpdateUserInputs ==
    << UserInput(<<"B", "O", "B">>, <<"4">>, JNull),
       UserInput(S_al, <<"5">>, JStr(S_bob)),
       UserInput(<<"n", "e", "w">>, <<"6">>, JStr(<<"A", "L">>)),
       UserInput(<<"B", "o", "b">>, <<"7">>, JStr(S_bob)) >>

\* usernames given to delete_user
UsernameInputs == << <<"B", "O", "B">>, <<"n", "o">> >>

\* (username, new_username) given to duplicate_user
DuplicateUserInputs ==
    << <<S_bob, JNull>>,
       <<<<"B", "O", "B">>, JStr(S_al)>>,
       <<<<"n", "o">>, JNull>> >>

UnknownId == <<"z", "z">>

\* (opnsense_profile_id, user_profile_id, username) given to export_legacy_files:
\* nothing, a username nobody has, an id not in use on either axis, and every
\* pair of ids in use with a username in another case
ExportInputs(m) ==
    { <<JNull, JNull, JNull>>,
      <<JNull, JNull, JStr(<<"n", "o">>)>>,
      <<JStr(UnknownId), JNull, JNull>>,
      <<JNull, JStr(UnknownId), JNull>> }
        \cup { <<JStr(o), JStr(p), JStr(<<"B", "O", "B">>)>> :
                   o \in IdsOf(m.opnsense_profiles), p \in IdsOf(m.user_profiles) }

\* the (profile id, input index) pairs a call is made with: every id in use with
\* every one of the n inputs, and an id not in use with the first input
IdArgs(profiles, n) == (IdsOf(profiles) \X (1..n)) \cup {<<UnknownId, 1>>}

\* profile ids given to the calls: every id in use and one that is not
OpnsenseIdInputs == IdsOf(mgr.opnsense_profiles) \cup {UnknownId}

UserProfileIdInputs == IdsOf(mgr.user_profiles) \cup {UnknownId}

----------------------------------------------------------------------------
(* The state machine.                                                      *)
(* A run is the application's life over one store: load(), an editing      *)
(* session of manager calls, then save() calls and restarts (load() again).*)
(* Calls may also be made on the manager as ConfigManager(path) constructs *)
(* it, before any load(): it then holds no profile at all.                 *)

\* no window: the manager is used on its own
NoApp == <<>>

NoCall == [op |-> "none", args |-> <<>>, result |-> "ok", events |-> <<>>,
           migrated |-> FALSE, wrote |-> FALSE]

Init ==
    /\ mgr = NewManager
    /\ loaded = FALSE
    /\ \E i \in 1..Len(StartFiles) : store = StartFiles[i][1] /\ legacy = StartFiles[i][2]
    /\ uuid = 0
    /\ last = NoCall
    /\ nops = 0
    /\ nfileops = 0
    /\ heap = <<>>
    /\ app = NoApp

\* calls are made on the manager as constructed, before any load(), or on the
\* manager load() returned, before the store is written or read again
InSession == nops < MaxOps /\ (nfileops = 0 \/ (loaded /\ nfileops = 1))

\* a call on the manager with outcome r
Call(op, args, r) ==
    /\ InSession
    /\ mgr' = r.m
    /\ uuid' = r.uuid
    /\ last' = [op |-> op, args |-> args, result |-> r.result, events |-> r.events,
                migrated |-> FALSE, wrote |-> FALSE]
    /\ nops' = nops + 1
    /\ UNCHANGED <<loaded, store, legacy, nfileops, heap, app>>

\* ConfigManager.load(): the application starts (again) from the files
Load ==
    /\ nops + nfileops < MaxSteps
    /\ LET r == load(store, legacy, uuid)
       IN  /\ mgr' = r.m
           /\ loaded' = (r.result = "ok")
           /\ store' = r.store
           /\ uuid' = r.uuid
           /\ last' = [op |-> "load", args |-> <<>>, result |-> r.result, events |-> <<>>,
                       migrated |-> r.migrated, wrote |-> r.wrote]
    /\ nfileops' = nfileops + 1
    /\ UNCHANGED <<legacy, nops, heap, app>>

Save ==
    /\ loaded
    /\ nops + nfileops < MaxSteps
    /\ store' = save(mgr)
    /\ last' = [op |-> "save", args |-> <<>>, result |-> "ok", events |-> <<>>,
                migrated |-> FALSE, wrote |-> TRUE]
    /\ nfileops' = nfileops + 1
    /\ UNCHANGED <<mgr, loaded, legacy, uuid, nops, heap, app>>

SetSelectedOpnsenseProfileId ==
    \E id \in {JNull} \cup {JStr(x) : x \in OpnsenseIdInputs} :
        Call("set_selected_opnsense_profile_id", <<id>>,
             set_selected_opnsense_profile_id(mgr, uuid, id))

SetSelectedUserProfileId ==
    \E id \in {JNull} \cup {JStr(x) : x \in UserProfileIdInputs} :
        Call("set_selected_user_profile_id", <<id>>,
             set_selected_user_profile_id(mgr, uuid, id))

CreateOpnsenseProfile ==
    \E i \in 1..Len(CreateOpnsenseInputs) :
        Call("create_opnsense_profile", CreateOpnsenseInputs[i],
             create_opnsense_profile(mgr, uuid, CreateOpnsenseInputs[i][1],
                                     CreateOpnsenseInputs[i][2]))

RenameOpnsenseProfile ==
    \E a \in IdArgs(mgr.opnsense_profiles, Len(NameInputs)) :
        Call("rename_opnsense_profile", <<a[1], NameInputs[a[2]]>>,
             rename_opnsense_profile(mgr, uuid, a[1], NameInputs[a[2]]))

DeleteOpnsenseProfile ==
    \E id \in OpnsenseIdInputs :
        Call("delete_opnsense_profile", <<id>>, delete_opnsense_profile(mgr, uuid, id))

DuplicateOpnsenseProfile ==
    \E a \in IdArgs(mgr.opnsense_profiles, Len(CopyNameInputs)) :
        Call("duplicate_opnsense_profile", <<a[1], CopyNameInputs[a[2]]>>,
             duplicate_opnsense_profile(mgr, uuid, a[1], CopyNameInputs[a[2]]))

UpdateOpnsenseConnection ==
    \E a \in IdArgs(mgr.opnsense_profiles, Len(ConnectionInputs)) :
        Call("update_opnsense_connection", <<a[1], ConnectionInputs[a[2]]>>,
             update_opnsense_connection(mgr, uuid, a[1], ConnectionInputs[a[2]]))

UpdateOpnsenseSettings ==
    \E a \in IdArgs(mgr.opnsense_profiles, Len(AutomationInputs)) :
        Call("update_opnsense_settings", <<a[1], AutomationInputs[a[2]]>>,
             update_opnsense_settings(mgr, uuid, a[1], AutomationInputs[a[2]]))

CreateUserProfile ==
    \E i \in 1..Len(CreateUserProfileInputs) :
        Call("create_user_profile", CreateUserProfileInputs[i],
             create_user_profile(mgr, uuid, CreateUserProfileInputs[i][1],
                                 CreateUserProfileInputs[i][2]))

RenameUserProfile ==
    \E a \in IdArgs(mgr.user_profiles, Len(NameInputs)) :
        Call("rename_user_profile", <<a[1], NameInputs[a[2]]>>,
             rename_user_profile(mgr, uuid, a[1], NameInputs[a[2]]))

DeleteUserProfile ==
    \E id \in UserProfileIdInputs :
        Call("delete_user_profile", <<id>>, delete_user_profile(mgr, uuid, id))

DuplicateUserProfile ==
    \E a \in IdArgs(mgr.user_profiles, Len(CopyNameInputs)) :
        Call("duplicate_user_profile", <<a[1], CopyNameInputs[a[2]]>>,
             duplicate_user_profile(mgr, uuid, a[1], CopyNameInputs[a[2]]))

AddUser ==
    \E a \in IdArgs(mgr.user_profiles, Len(AddUserInputs)) :
        Call("add_user", <<a[1], AddUserInputs[a[2]]>>,
             add_user(mgr, uuid, a[1], AddUserInputs[a[2]]))

UpdateUser ==
    \E a \in IdArgs(mgr.user_profiles, Len(UpdateUserInputs)) :
        Call("update_user", <<a[1], UpdateUserInputs[a[2]]>>,
             update_user(mgr, uuid, a[1], UpdateUserInputs[a[2]]))

DeleteUser ==
    \E a \in IdArgs(mgr.user_profiles, Len(UsernameInputs)) :
        Call("delete_user", <<a[1], UsernameInputs[a[2]]>>,
             delete_user(mgr, uuid, a[1], UsernameInputs[a[2]]))

DuplicateUser ==
    \E a \in IdArgs(mgr.user_profiles, Len(DuplicateUserInputs)) :
        Call("duplicate_user", <<a[1], DuplicateUserInputs[a[2]][1], DuplicateUserInputs[a[2]][2]>>,
             duplicate_user(mgr, uuid, a[1], DuplicateUserInputs[a[2]][1],
                            DuplicateUserInputs[a[2]][2]))

ExportLegacyFiles ==
    \E a \in ExportInputs(mgr) :
        /\ InSession
        /\ legacy' = export_legacy_files(mgr, legacy, a[1], a[2], a[3]).files
        /\ last' = [op |-> "export_legacy_files", args |-> a,
                    result |-> export_legacy_files(mgr, legacy, a[1], a[2], a[3]).result,
                    events |-> <<>>, migrated |-> FALSE, wrote |-> FALSE]
        /\ nops' = nops + 1
        /\ UNCHANGED <<mgr, loaded, store, uuid, nfileops, heap, app>>

Next ==
    \/ Load
    \/ Save
    \/ SetSelectedOpnsenseProfileId
    \/ SetSelectedUserProfileId
    \/ CreateOpnsenseProfile
    \/ RenameOpnsenseProfile
    \/ DeleteOpnsenseProfile
    \/ DuplicateOpnsenseProfile
    \/ UpdateOpnsenseConnection
    \/ UpdateOpnsenseSettings
    \/ CreateUserProfile
    \/ RenameUserProfile
    \/ DeleteUserProfile
    \/ DuplicateUserProfile
    \/ AddUser
    \/ UpdateUser
    \/ DeleteUser
    \/ DuplicateUser
    \/ ExportLegacyFiles

Spec == Init /\ [][Next]_vars

----------------------------------------------------------------------------
(* make_unique_name on its own: the function applied to base names and sets   *)
(* of taken names that no manager call passes it.                             *)

S_Foo == <<"F", "o", "o">>

\* base names: empty, blank, plain, in blanks, in another case, the default
\* name, a name that is itself a copy name
UniqueNameBases ==
    { <<>>, <<" ", "\t">>, S_Foo, <<" ">> \o S_Foo \o <<" ">>, <<"f", "O", "O">>,
      DEFAULT_PROFILE_NAME, S_Foo \o COPY_FMT }

\* names that may be taken: the plain names, their copy names in several cases
\* with a gap at (copy 4), and a name in blanks
UniqueNameTaken ==
    { S_Foo,
      <<"f", "o", "o">> \o <<" ", "(", "C", "O", "P", "Y", ")">>,
      S_Foo \o <<" ", "(", "c", "o", "p", "y", " ", "2", ")">>,
      S_Foo \o <<" ", "(", "c", "o", "p", "y", " ", "3", ")">>,
      S_Foo \o <<" ", "(", "c", "o", "p", "y", " ", "5", ")">>,
      S_Foo \o COPY_FMT \o COPY_FMT,
      <<"d", "e", "f", "a", "u", "l", "t">>,
      DEFAULT_PROFILE_NAME \o COPY_FMT,
      <<" ">> \o S_Foo }

NameInit ==
    /\ mgr = NewManager
    /\ loaded = FALSE
    /\ store = AbsentFile
    /\ legacy = NoLegacy
    /\ uuid = 0
    /\ last = NoCall
    /\ nops = 0
    /\ nfileops = 0
    /\ heap = <<>>
    /\ app = NoApp

\* make_unique_name(base, taken) with the default suffix format, called once
MakeUniqueName ==
    \E base \in UniqueNameBases, taken \in SUBSET UniqueNameTaken :
        /\ nops = 0
        /\ last' = [op |-> "make_unique_name", args |-> <<base, taken>>,
                    result |-> make_unique_name(base, taken), events |-> <<>>,
                    migrated |-> FALSE, wrote |-> FALSE]
        /\ nops' = nops + 1
        /\ UNCHANGED <<mgr, loaded, store, legacy, uuid, nfileops, heap, app>>

NameNext == MakeUniqueName

NameSpec == NameInit /\ [][NameNext]_vars

----------------------------------------------------------------------------
(* make_unique_username on its own.                                          *)

\* base usernames: empty, blank, plain, in blanks, in another case, the
\* template's username, a username that is itself a copy
UniqueUsernameBases ==
    { <<>>, <<" ", " ">>, S_bob, <<" ">> \o S_bob \o <<" ">>, <<"B", "o", "B">>,
      DEFAULT_USER_TEMPLATE.v["username"].v, S_bob \o <<"-", "c", "o", "p", "y">> }

\* usernames that may be taken: the plain ones, their copies in several cases
\* with a gap at copy-4, and a username in blanks
UniqueUsernameTaken ==
    { <<"B", "O", "B">>,
      S_bob \o <<"-", "C", "o", "p", "y">>,
      S_bob \o <<"-", "c", "o", "p", "y", "-", "2">>,
      <<"B", "o", "b">> \o <<"-", "c", "o", "p", "y", "-", "3">>,
      S_bob \o <<"-", "c", "o", "p", "y", "-", "5">>,
      S_bob \o <<"-", "c", "o", "p", "y", "-", "c", "o", "p", "y">>,
      <<"U", "s", "e", "r", "1">>,
      DEFAULT_USER_TEMPLATE.v["username"].v \o <<"-", "c", "o", "p", "y">>,
      <<" ">> \o S_bob }

\* make_unique_username(base, taken), called once
MakeUniqueUsername ==
    \E base \in UniqueUsernameBases, taken \in SUBSET UniqueUsernameTaken :
        /\ nops = 0
        /\ last' = [op |-> "make_unique_username", args |-> <<base, taken>>,
                    result |-> make_unique_username(base, taken), events |-> <<>>,
                    migrated |-> FALSE, wrote |-> FALSE]
        /\ nops' = nops + 1
        /\ UNCHANGED <<mgr, loaded, store, legacy, uuid, nfileops, heap, app>>

UsernameNext == MakeUniqueUsername

UsernameSpec == NameInit /\ [][UsernameNext]_vars

----------------------------------------------------------------------------
(* Objects by address.  heap is a sequence of objects and an address is an   *)
(* index into it.  A dict object holds, per key, a scalar or a reference to  *)
(* another dict object; a list object holds the addresses of User objects;   *)
(* a User object holds its fields.  In these runs a profile of mgr holds     *)
(* the address of its settings dict or of its users list.                    *)

Ref(a) == [t |-> "ref", a |-> a]

DictObj(items) == [kind |-> "dict", items |-> items]

ListObj(items) == [kind |-> "list", items |-> items]

UserObj(user) == [kind |-> "User", v |-> user]

\* the value a scalar or a reference stands for: a dict with all below it
RECURSIVE deref(_, _)
deref(h, v) ==
    IF v.t = "ref"
    THEN JObj([k \in DOMAIN h[v.a].items |-> deref(h, h[v.a].items[k])])
    ELSE v

\* the users of the list object at address a
users_at(h, a) == [i \in 1..Len(h[a].items) |-> h[h[a].items[i]].v]

\* the value under a path of keys of the value j
RECURSIVE value_at(_, _)
value_at(j, path) ==
    IF path = <<>> THEN j ELSE value_at(j.v[Head(path)], Tail(path))

\* the paths of keys that lead to the dicts of the dict j, j itself included
RECURSIVE dict_paths(_)
dict_paths(j) ==
    {<<>>} \cup UNION {{<<k>> \o path : path \in dict_paths(j.v[k])} :
                          k \in {k \in DOMAIN j.v : j.v[k].t = "obj"}}

\* the members of a set one after the other
RECURSIVE in_order(_)
in_order(S) ==
    IF S = {} THEN <<>>
    ELSE <<CHOOSE x \in S : TRUE>> \o in_order(S \ {CHOOSE x \in S : TRUE})

position(seq, x) == CHOOSE n \in 1..Len(seq) : seq[n] = x

\* the new dict object for the dict d found under path: a scalar is kept, a
\* nested dict is the reference to its own new object
new_dict(h, paths, path, d) ==
    DictObj([k \in DOMAIN d.v |->
                IF d.v[k].t = "obj"
                THEN Ref(Len(h) + position(paths, path \o <<k>>))
                ELSE d.v[k]])

new_dicts(h, j, paths) ==
    [heap |-> h \o [n \in 1..Len(paths) |-> new_dict(h, paths, paths[n], value_at(j, paths[n]))],
     v    |-> Ref(Len(h) + position(paths, <<>>))]

\* new objects for the value j: a scalar is itself, a dict a new dict object
\* with new objects for the dicts below it.  Returns the heap and the scalar
\* or reference.
new_value(h, j) ==
    IF j.t # "obj" THEN [heap |-> h, v |-> j] ELSE new_dicts(h, j, in_order(dict_paths(j)))

\* copy.deepcopy(v): new objects all the way down
deepcopy(h, v) == new_value(h, deref(h, v))

\* a new list object of new User objects, one for each of users; a is its address
new_user_list(h, users) ==
    [heap |-> h \o [i \in 1..Len(users) |-> UserObj(users[i])]
                \o <<ListObj([i \in 1..Len(users) |-> Len(h) + i])>>,
     a    |-> Len(h) + Len(users) + 1]

\* the manager as a value: every profile with the settings or users its
\* address stands for
view(m, h) ==
    [opnsense_profiles |->
         [i \in 1..Len(m.opnsense_profiles) |->
             [id       |-> m.opnsense_profiles[i].id,
              name     |-> m.opnsense_profiles[i].name,
              settings |-> deref(h, Ref(m.opnsense_profiles[i].settings))]],
     user_profiles |->
         [i \in 1..Len(m.user_profiles) |->
             [id    |-> m.user_profiles[i].id,
              name  |-> m.user_profiles[i].name,
              users |-> users_at(h, m.user_profiles[i].users)]],
     selected_opnsense_profile_id |-> m.selected_opnsense_profile_id,
     selected_user_profile_id     |-> m.selected_user_profile_id]

put_opnsense(acc, profile, made) ==
    [heap |-> made.heap,
     ps   |-> Append1(acc.ps, [id |-> profile.id, name |-> profile.name,
                               settings |-> made.v.a])]

put_user_profile(acc, profile, made) ==
    [heap |-> made.heap,
     ps   |-> Append1(acc.ps, [id |-> profile.id, name |-> profile.name, users |-> made.a])]

\* the OPNsense profiles load() built, each with a settings dict of its own
RECURSIVE opnsense_on_heap(_, _, _)
opnsense_on_heap(profiles, acc, k) ==
    IF k > Len(profiles) THEN acc
    ELSE opnsense_on_heap(profiles,
             put_opnsense(acc, profiles[k], new_value(acc.heap, profiles[k].settings)),
             k + 1)

\* the user profiles load() built, each with a list and User objects of its own
RECURSIVE user_profiles_on_heap(_, _, _)
user_profiles_on_heap(profiles, acc, k) ==
    IF k > Len(profiles) THEN acc
    ELSE user_profiles_on_heap(profiles,
             put_user_profile(acc, profiles[k], new_user_list(acc.heap, profiles[k].users)),
             k + 1)

on_heap_users(m, made_o, made_u) ==
    [m    |-> [m EXCEPT !.opnsense_profiles = made_o.ps, !.user_profiles = made_u.ps],
     heap |-> made_u.heap]

on_heap_opnsense(m, made_o) ==
    on_heap_users(m, made_o,
        user_profiles_on_heap(m.user_profiles, [heap |-> made_o.heap, ps |-> <<>>], 1))

\* the manager m, as load() returns it, with its objects by address
on_heap(m) ==
    on_heap_opnsense(m, opnsense_on_heap(m.opnsense_profiles, [heap |-> <<>>, ps |-> <<>>], 1))

\* Fault: the clone gets a list of its own that holds the source's User objects.
heap_UserProfile_clone_same_users(h, profile, new_id, name) ==
    [heap |-> Append(h, ListObj(h[profile.users].items)),
     p    |-> [id    |-> new_id,
               name  |-> IF name # <<>> THEN name ELSE profile.name,
               users |-> Len(h) + 1]]

cloned_user_profile(profile, new_id, name, made) ==
    [heap |-> made.heap,
     p    |-> [id    |-> new_id,
               name  |-> IF name # <<>> THEN name ELSE profile.name,
               users |-> made.a]]

\* UserProfile.clone: users=[user.clone() for user in self.users]
heap_UserProfile_clone(h, profile, new_id, name) ==
    cloned_user_profile(profile, new_id, name,
        new_user_list(h, [k \in 1..Len(users_at(h, profile.users)) |->
                             User_clone(users_at(h, profile.users)[k])]))

cloned_opnsense_profile(profile, new_id, name, made) ==
    [heap |-> made.heap,
     p    |-> [id       |-> new_id,
               name     |-> IF name # <<>> THEN name ELSE profile.name,
               settings |-> made.v.a]]

\* OPNsenseProfile.clone: settings=deepcopy(self.settings)
heap_OPNsenseProfile_clone(h, profile, new_id, name) ==
    cloned_opnsense_profile(profile, new_id, name, deepcopy(h, Ref(profile.settings)))

\* the unique name duplicate_*_profile gives the clone of the i-th profile
duplicate_name(profiles, i, new_name) ==
    make_unique_name(
        CleanNameOrDefault(IF Truthy(new_name) THEN new_name.v ELSE profiles[i].name),
        {profiles[k].name : k \in 1..Len(profiles)})

user_profile_appended(m, made) ==
    [m    |-> [m EXCEPT !.user_profiles = Append1(@, made.p),
                        !.selected_user_profile_id = JStr(made.p.id)],
     heap |-> made.heap]

\* duplicate_user_profile on the i-th user profile: what it leaves in the
\* manager and among the objects
heap_duplicate_user_profile(m, h, u, i, new_name) ==
    user_profile_appended(m,
        heap_UserProfile_clone(h, m.user_profiles[i], Uuid4Hex(u + 1),
                               duplicate_name(m.user_profiles, i, new_name)))

opnsense_profile_appended(m, made) ==
    [m    |-> [m EXCEPT !.opnsense_profiles = Append1(@, made.p),
                        !.selected_opnsense_profile_id = JStr(made.p.id)],
     heap |-> made.heap]

\* duplicate_opnsense_profile on the i-th OPNsense profile
heap_duplicate_opnsense_profile(m, h, u, i, new_name) ==
    opnsense_profile_appended(m,
        heap_OPNsenseProfile_clone(h, m.opnsense_profiles[i], Uuid4Hex(u + 1),
                                   duplicate_name(m.opnsense_profiles, i, new_name)))

\* add_user: profile.users.append(User.from_dict(user.to_dict()))
heap_add_user(m, h, i, user) ==
    [m    |-> m,
     heap |-> [Append(h, UserObj(User_from_dict(User_to_dict(user))))
                   EXCEPT ![m.user_profiles[i].users].items = Append1(@, Len(h) + 1)]]

\* update_user: profile.users[match_index] = User.from_dict(user.to_dict())
heap_update_user(m, h, i, user) ==
    [m    |-> m,
     heap |-> [Append(h, UserObj(User_from_dict(User_to_dict(user))))
                   EXCEPT ![m.user_profiles[i].users].items[
                               IndexOfUser(users_at(h, m.user_profiles[i].users),
                                           Strip(IF Truthy(user.original_username)
                                                 THEN user.original_username.v
                                                 ELSE user.username))] = Len(h) + 1]]

\* delete_user: del profile.users[idx]
heap_delete_user(m, h, i, username) ==
    [m    |-> m,
     heap |-> [h EXCEPT ![m.user_profiles[i].users].items =
                   RemoveAt(@, IndexOfUser(users_at(h, m.user_profiles[i].users), username))]]

\* get_user_profile(id).users[k].password = password, by a caller holding the
\* live profile
heap_set_password(m, h, i, k, password) ==
    [m    |-> m,
     heap |-> [h EXCEPT ![h[m.user_profiles[i].users].items[k]].v.password = password]]

\* what update_opnsense_connection writes for each recognized key
written_connection(connection) ==
    [key \in DOMAIN DEFAULT_CONNECTION.v |->
        JStr(IF GetOr(connection, key, DEFAULT_CONNECTION.v[key]).t = "str"
             THEN Strip(GetOr(connection, key, DEFAULT_CONNECTION.v[key]).v)
             ELSE Str(GetOr(connection, key, DEFAULT_CONNECTION.v[key])))]

\* update_opnsense_connection: conn = profile.settings.setdefault("connection", {}),
\* then conn[key] = ... for every recognized key
heap_update_opnsense_connection(m, h, i, connection) ==
    [m    |-> m,
     heap |-> IF "connection" \in DOMAIN h[m.opnsense_profiles[i].settings].items
              THEN [h EXCEPT ![h[m.opnsense_profiles[i].settings].items["connection"].a].items =
                        written_connection(connection) @@ @]
              ELSE [Append(h, DictObj(written_connection(connection)))
                        EXCEPT ![m.opnsense_profiles[i].settings].items =
                            ("connection" :> Ref(Len(h) + 1)) @@ @]]

\* Fault: the profile keeps the caller's payload itself.
heap_update_opnsense_settings_keeps_payload(m, h, i, automation) ==
    [m    |-> m,
     heap |-> [h EXCEPT ![m.opnsense_profiles[i].settings].items =
                   ("automation" :> automation) @@ @]]

automation_put(m, i, made) ==
    [m    |-> m,
     heap |-> [made.heap EXCEPT ![m.opnsense_profiles[i].settings].items =
                   ("automation" :> made.v) @@ @]]

\* update_opnsense_settings: profile.settings["automation"] = deepcopy(automation);
\* automation is the reference to the caller's payload
heap_update_opnsense_settings(m, h, i, automation) ==
    automation_put(m, i, deepcopy(h, automation))

\* usernames and passwords the calls of these runs are made with
HeapAddUserInputs == << UserInput(<<"n", "e", "w">>, <<"6">>, JNull) >>

HeapUpdateUserInputs == << UpdateUserInputs[1] >>

HeapPassword == <<"9">>

\* what the caller assigns in its payload after update_opnsense_settings:
\* a top-level key or a key of the nested Lifetimes dict
PayloadWrites == << <<"GroupName">>, <<"Lifetimes", "CALifetimeDays">> >>

\* the manager load() returned for the two-profile store, its objects by address
HeapStarted(r, made) ==
    /\ mgr = made.m
    /\ heap = made.heap
    /\ app = NoApp
    /\ loaded = TRUE
    /\ store = r.store
    /\ legacy = NoLegacy
    /\ uuid = r.uuid
    /\ last = [op |-> "load", args |-> <<>>, result |-> r.result, events |-> <<>>,
               migrated |-> r.migrated, wrote |-> r.wrote]
    /\ nops = 0
    /\ nfileops = 1

HeapInit ==
    \E r \in {load(JsonFile(CurrentStore), NoLegacy, 0)} :
        \E made \in {on_heap(r.m)} : HeapStarted(r, made)

\* a call with value-level outcome r that leaves the manager and the objects
\* as in made when it succeeds, untouched when it raises
HeapCall(op, args, r, made) ==
    /\ nops < MaxHeapOps
    /\ mgr' = (IF r.result = "ok" THEN made.m ELSE mgr)
    /\ heap' = (IF r.result = "ok" THEN made.heap ELSE heap)
    /\ uuid' = r.uuid
    /\ last' = [op |-> op, args |-> args, result |-> r.result, events |-> r.events,
                migrated |-> FALSE, wrote |-> FALSE]
    /\ nops' = nops + 1
    /\ UNCHANGED <<loaded, store, legacy, nfileops, app>>

HeapDuplicateUserProfile ==
    \E i \in 1..Len(mgr.user_profiles) :
        \E v \in {view(mgr, heap)} :
            HeapCall("duplicate_user_profile", <<mgr.user_profiles[i].id, JNull>>,
                     duplicate_user_profile(v, uuid, mgr.user_profiles[i].id, JNull),
                     heap_duplicate_user_profile(mgr, heap, uuid, i, JNull))

HeapDuplicateOpnsenseProfile ==
    \E i \in 1..Len(mgr.opnsense_profiles) :
        \E v \in {view(mgr, heap)} :
            HeapCall("duplicate_opnsense_profile", <<mgr.opnsense_profiles[i].id, JNull>>,
                     duplicate_opnsense_profile(v, uuid,
                                                mgr.opnsense_profiles[i].id, JNull),
                     heap_duplicate_opnsense_profile(mgr, heap, uuid, i, JNull))

HeapAddUser ==
    \E i \in 1..Len(mgr.user_profiles), k \in 1..Len(HeapAddUserInputs) :
        \E v \in {view(mgr, heap)} :
            HeapCall("add_user", <<mgr.user_profiles[i].id, HeapAddUserInputs[k]>>,
                     add_user(v, uuid, mgr.user_profiles[i].id, HeapAddUserInputs[k]),
                     heap_add_user(mgr, heap, i, HeapAddUserInputs[k]))

HeapUpdateUser ==
    \E i \in 1..Len(mgr.user_profiles), k \in 1..Len(HeapUpdateUserInputs) :
        \E v \in {view(mgr, heap)} :
            HeapCall("update_user", <<mgr.user_profiles[i].id, HeapUpdateUserInputs[k]>>,
                     update_user(v, uuid, mgr.user_profiles[i].id,
                                 HeapUpdateUserInputs[k]),
                     heap_update_user(mgr, heap, i, HeapUpdateUserInputs[k]))

HeapDeleteUser ==
    \E i \in 1..Len(mgr.user_profiles) :
        \E v \in {view(mgr, heap)} :
            HeapCall("delete_user", <<mgr.user_profiles[i].id, UsernameInputs[1]>>,
                     delete_user(v, uuid, mgr.user_profiles[i].id, UsernameInputs[1]),
                     heap_delete_user(mgr, heap, i, UsernameInputs[1]))

\* a caller assigns the password of a user of the live profile it got from
\* get_user_profile; no manager method runs and no notification is raised
HeapSetPassword ==
    \E i \in 1..Len(mgr.user_profiles) :
        \E k \in 1..Len(heap[mgr.user_profiles[i].users].items) :
            \E v \in {view(mgr, heap)} :
                HeapCall("set_password", <<mgr.user_profiles[i].id, k>>,
                         Return(v, uuid, <<>>),
                         heap_set_password(mgr, heap, i, k, HeapPassword))

HeapUpdateOpnsenseConnection ==
    \E i \in 1..Len(mgr.opnsense_profiles) :
        \E v \in {view(mgr, heap)} :
            HeapCall("update_opnsense_connection", <<mgr.opnsense_profiles[i].id, ConnectionInputs[1]>>,
                     update_opnsense_connection(v, uuid, mgr.opnsense_profiles[i].id,
                                                ConnectionInputs[1]),
                     heap_update_opnsense_connection(mgr, heap, i, ConnectionInputs[1]))

\* the caller builds its payload, a dict of its own, and hands it over; args
\* holds the reference the caller keeps
HeapUpdateOpnsenseSettings ==
    \E i \in 1..Len(mgr.opnsense_profiles), k \in 1..Len(AutomationInputs) :
        \E v \in {view(mgr, heap)}, made \in {new_value(heap, AutomationInputs[k])} :
            HeapCall("update_opnsense_settings", <<mgr.opnsense_profiles[i].id, made.v>>,
                     update_opnsense_settings(v, uuid, mgr.opnsense_profiles[i].id,
                                              AutomationInputs[k]),
                     heap_update_opnsense_settings(mgr, made.heap, i, made.v))

\* the dict object a path of keys leads to from the dict at address a
RECURSIVE dict_at(_, _, _)
dict_at(h, a, path) ==
    IF Len(path) = 1 THEN a ELSE dict_at(h, h[a].items[Head(path)].a, Tail(path))

\* after update_opnsense_settings the caller assigns a key of its payload
HeapWritePayload ==
    \E k \in 1..Len(PayloadWrites) :
        /\ last.op = "update_opnsense_settings"
        /\ last.result = "ok"
        /\ nops < MaxHeapOps
        /\ heap' = [heap EXCEPT ![dict_at(heap, last.args[2].a, PayloadWrites[k])]
                                     .items[PayloadWrites[k][Len(PayloadWrites[k])]] =
                                         JStr(<<"w">>)]
        /\ last' = [op |-> "write_payload", args |-> <<last.args[1], last.args[2], k>>,
                    result |-> "ok", events |-> <<>>, migrated |-> FALSE, wrote |-> FALSE]
        /\ nops' = nops + 1
        /\ UNCHANGED <<mgr, loaded, store, legacy, uuid, nfileops, app>>

HeapNext ==
    \/ HeapDuplicateUserProfile
    \/ HeapDuplicateOpnsenseProfile
    \/ HeapAddUser
    \/ HeapUpdateUser
    \/ HeapDeleteUser
    \/ HeapSetPassword
    \/ HeapUpdateOpnsenseConnection
    \/ HeapUpdateOpnsenseSettings
    \/ HeapWritePayload

HeapSpec == HeapInit /\ [][HeapNext]_vars

----------------------------------------------------------------------------
(* Properties: vocabulary *)

OpnsenseProfileOps ==
    {"create_opnsense_profile", "rename_opnsense_profile",
     "duplicate_opnsense_profile", "delete_opnsense_profile"}

UserProfileOps ==
    {"create_user_profile", "rename_user_profile",
     "duplicate_user_profile", "delete_user_profile"}

FileOps == {"load", "save"}

\* every name is non-empty and no two names are equal ignoring case
NamesValid(profiles) ==
    \A i \in 1..Len(profiles) :
        /\ profiles[i].name # <<>>
        /\ \A j \in 1..Len(profiles) :
               i # j => Lower(profiles[i].name) # Lower(profiles[j].name)

NameInvariant(m) == NamesValid(m.opnsense_profiles) /\ NamesValid(m.user_profiles)

\* no two users of the profile have usernames equal ignoring case
UsernamesUnique(profile) ==
    \A i, j \in 1..Len(profile.users) :
        i # j => Lower(profile.users[i].username) # Lower(profile.users[j].username)

\* the pointer is null or the id of a listed profile
Live(pointer, profiles) ==
    pointer = JNull \/ (pointer.t = "str" /\ pointer.v \in IdsOf(profiles))

\* the step is a call that failed and left the manager as it was
FailsUnchanged == last'.result # "ok" /\ mgr' = mgr

\* the trimmed name equals, ignoring case, the name of a listed profile
Collides(profiles, name) ==
    \E i \in 1..Len(profiles) : Lower(profiles[i].name) = Lower(Strip(name))

\* the trimmed name equals, ignoring case, the name of a listed profile whose id
\* is not profile_id
CollidesWithOther(profiles, name, profile_id) ==
    \E i \in 1..Len(profiles) :
        profiles[i].id # profile_id /\ Lower(profiles[i].name) = Lower(Strip(name))

\* d is an object holding every key of defaults
HasAll(d, defaults) == IsDict(d) /\ DOMAIN defaults.v \subseteq DOMAIN d.v

NestedGroups == {"NamePatterns", "Lifetimes", "Firewall"}

\* every recognized connection key and every recognized automation key,
\* nested ones included, is present
SettingsComplete(settings) ==
    /\ IsDict(settings)
    /\ Has(settings, "connection")
    /\ HasAll(settings.v["connection"], DEFAULT_CONNECTION)
    /\ Has(settings, "automation")
    /\ HasAll(settings.v["automation"], DEFAULT_AUTOMATION)
    /\ \A g \in NestedGroups :
           HasAll(settings.v["automation"].v[g], DEFAULT_AUTOMATION.v[g])

AllSettingsComplete(m) ==
    \A i \in 1..Len(m.opnsense_profiles) : SettingsComplete(m.opnsense_profiles[i].settings)

\* result is given with exactly the missing recognized keys added, each with
\* its default; a group that is absent or not an object counts as missing
RECURSIVE Backfilled(_, _, _)
Backfilled(given, defaults, result) ==
    IF ~IsDict(given) THEN result = defaults
    ELSE /\ IsDict(result)
         /\ DOMAIN result.v = (DOMAIN given.v) \cup (DOMAIN defaults.v)
         /\ \A k \in DOMAIN result.v :
                IF k \notin DOMAIN given.v THEN result.v[k] = defaults.v[k]
                ELSE IF k \in DOMAIN defaults.v /\ IsDict(defaults.v[k])
                     THEN Backfilled(given.v[k], defaults.v[k], result.v[k])
                ELSE result.v[k] = given.v[k]

\* settings is the payload's settings after the default backfill
SettingsBackfilled(given, settings) ==
    /\ IsDict(settings)
    /\ DOMAIN settings.v = (DOMAIN given.v) \cup {"connection", "automation"}
    /\ Backfilled(Get(given, "connection"), DEFAULT_CONNECTION, settings.v["connection"])
    /\ Backfilled(Get(given, "automation"), DEFAULT_AUTOMATION, settings.v["automation"])
    /\ \A k \in DOMAIN given.v \ {"connection", "automation"} : settings.v[k] = given.v[k]

\* profile is the deserialized payload: settings backfilled, unchanged by a
\* serialize / deserialize round, and equal to the payload's when those are complete
DeserializedFrom(payload, profile) ==
    /\ SettingsBackfilled(Or(Get(payload, "settings"), EmptyObj), profile.settings)
    /\ OPNsenseProfile_from_dict(OPNsenseProfile_to_dict(profile), uuid).p = profile
    /\ SettingsComplete(Or(Get(payload, "settings"), EmptyObj))
           => profile.settings = Get(payload, "settings")

\* the OPNsense profile payloads of a current-shape store document
StoredOpnsensePayloads(file) == Or(Get(read_store(file), "opnsense_profiles"), EmptyArr).v

----------------------------------------------------------------------------
(* Properties: the claims *)

\* C1 (as stated; refuted): from any state in which every profile name of a
\* collection is non-empty and unique ignoring case, a create / rename /
\* duplicate / delete profile call leads to a state in which that still holds.
C1_NamesPreserved ==
    [][(last'.op \in OpnsenseProfileOps \cup UserProfileOps /\ NameInvariant(mgr))
           => NameInvariant(mgr')]_vars

\* C2 (as stated; refuted): in every state after load(), no two users of one
\* user profile have usernames that are equal ignoring case.
C2_UsernamesUnique ==
    loaded => \A k \in 1..Len(mgr.user_profiles) : UsernamesUnique(mgr.user_profiles[k])

\* C3: in every state after load(), each selection pointer is null or the id of
\* a profile listed in its collection.
C3_SelectionLive ==
    loaded => /\ Live(mgr.selected_opnsense_profile_id, mgr.opnsense_profiles)
              /\ Live(mgr.selected_user_profile_id, mgr.user_profiles)

\* C3 case: the selected OPNsense profile has just been deleted and the pointer
\* names the first remaining profile.
C3_Witness ==
    /\ loaded
    /\ last.op = "delete_opnsense_profile"
    /\ last.events = <<"opnsense_profiles_changed", "selection_changed">>
    /\ mgr.selected_opnsense_profile_id = JStr(mgr.opnsense_profiles[1].id)

\* C4: after load() both collections hold a profile, in every later state too;
\* a delete on a manager holding exactly one profile of that kind fails and
\* leaves the collection as it was.
C4_AtLeastOneProfile ==
    [][/\ loaded' => (mgr'.opnsense_profiles # <<>> /\ mgr'.user_profiles # <<>>)
       /\ (last'.op = "delete_opnsense_profile" /\ Len(mgr.opnsense_profiles) = 1)
              => (last'.result # "ok" /\ mgr'.opnsense_profiles = mgr.opnsense_profiles)
       /\ (last'.op = "delete_user_profile" /\ Len(mgr.user_profiles) = 1)
              => (last'.result # "ok" /\ mgr'.user_profiles = mgr.user_profiles)]_vars

\* C4 case: load() has created the default profile, and a delete of it has just
\* been refused.
C4_Witness ==
    /\ loaded
    /\ last.op = "delete_opnsense_profile"
    /\ last.result = "last_profile"
    /\ Len(mgr.opnsense_profiles) = 1
    /\ mgr.opnsense_profiles[1].name = DEFAULT_PROFILE_NAME
    /\ last.args = <<mgr.opnsense_profiles[1].id>>

\* C5: a manager call that fails leaves the manager (collections, users,
\* settings, both pointers) as it was and raises no notification.
C5_FailedCallsChangeNothing ==
    [][(last'.op \notin FileOps /\ last'.result # "ok")
           => (mgr' = mgr /\ last'.events = <<>>)]_vars

\* C5 case: an update_user that collides with a third user has just failed.
C5_Witness ==
    /\ last.op = "update_user"
    /\ last.result = "conflict"
    /\ last.events = <<>>

C7_SettingsComplete == loaded => AllSettingsComplete(mgr)

\* C8 (as stated; refuted): every OPNsense profile just deserialized (by load()
\* from a current-shape store, or by create_opnsense_profile) holds its
\* payload's settings with exactly the missing recognized keys added with their
\* defaults, is unchanged by serializing and deserializing it again, and holds
\* the payload's settings unchanged when they were complete.
C8_BackfillExact ==
    /\ (last.op = "load" /\ last.result = "ok" /\ ~last.migrated)
           => \A k \in 1..Len(StoredOpnsensePayloads(store)) :
                  DeserializedFrom(StoredOpnsensePayloads(store)[k], mgr.opnsense_profiles[k])
    /\ (last.op = "create_opnsense_profile" /\ last.result = "ok")
           => DeserializedFrom(JObj([settings |-> last.args[2]]),
                               mgr.opnsense_profiles[Len(mgr.opnsense_profiles)])

C10_MigratesOnce ==
    [][/\ (last'.op = "load" /\ last'.result = "ok" /\ last'.migrated)
              => /\ last'.wrote
                 /\ store' = save(mgr')
                 /\ store_shape(store') = "current"
       /\ (last.op = "load" /\ last.result = "ok" /\ last.migrated /\ last'.op = "load")
              => /\ last'.result = "ok"
                 /\ ~last'.migrated
                 /\ ~last'.wrote
                 /\ store' = store
                 /\ mgr' = mgr]_vars

\* C10 case: the legacy files were migrated by a first load(), and a second
\* load() has just read the store the first one wrote.
C10_Witness ==
    /\ last.op = "load"
    /\ ~last.migrated
    /\ nfileops = 2
    /\ nops = 0
    /\ legacy = LegacyFiles
    /\ store = save(mgr)
    /\ Len(mgr.opnsense_profiles) = 2

\* a file that does not parse, taken as if it were not there
AsAbsent(file) == IF file.kind = "malformed" THEN AbsentFile ELSE file

AllAsAbsent(files) == [f \in DOMAIN files |-> AsAbsent(files[f])]

\* C11 (as stated; refuted): load() returns whatever the primary store and the
\* three legacy files hold; the manager then has a profile of each kind and both
\* selection pointers set, and is the one load() builds when every file that
\* does not parse is absent instead.
C11_LoadNeverFails ==
    [][last'.op = "load"
           => /\ last'.result = "ok"
              /\ mgr'.opnsense_profiles # <<>>
              /\ mgr'.user_profiles # <<>>
              /\ mgr'.selected_opnsense_profile_id # JNull
              /\ mgr'.selected_user_profile_id # JNull
              /\ mgr' = load(AsAbsent(store), AllAsAbsent(legacy), uuid).m]_vars

\* the load() in this step migrated with outcome step: it fails as the migration
\* does, or builds the manager of the migrated payload and saves it
LoadedVia(step) ==
    /\ last'.migrated
    /\ last'.result = step.result
    /\ step.result = "ok"
           => /\ mgr' = load_from_payload(step.data, step.uuid).m
              /\ store' = save(mgr')

\* the load() in this step took the payload as it is: no migration, no write
LoadedDirectly(payload) ==
    /\ last'.result = "ok"
    /\ ~last'.migrated
    /\ ~last'.wrote
    /\ store' = store
    /\ mgr' = load_from_payload(payload, uuid).m

\* C12: load() takes the first shape that matches: a store file holding both
\* opnsense_profiles and user_profiles is loaded as it is, without migration or
\* write; otherwise one holding profiles is migrated as single-axis; otherwise
\* one holding both settings and users is migrated as flat single-profile; a
\* store file of no shape loads as empty; the legacy files are read only when
\* there is no store file.
C12_ShapePrecedence ==
    [][last'.op = "load"
           => /\ IF store.kind = "absent"
                 THEN LoadedVia(load_from_split_files(legacy, uuid))
                 ELSE IF /\ Has(read_store(store), "opnsense_profiles")
                         /\ Has(read_store(store), "user_profiles")
                      THEN LoadedDirectly(read_store(store))
                 ELSE IF Has(read_store(store), "profiles")
                      THEN LoadedVia(migrate_profiles_payload(read_store(store), uuid))
                 ELSE IF /\ Has(read_store(store), "settings")
                         /\ Has(read_store(store), "users")
                      THEN LoadedVia(migrate_single_profile_payload(read_store(store), uuid))
                 ELSE LoadedDirectly(EmptyObj)
              /\ store.kind # "absent" => mgr' = load(store, NoLegacy, uuid).m]_vars

\* C12 case: a store matching every shape has just been loaded as current, next
\* to legacy files that were not read.
C12_Witness ==
    /\ last.op = "load"
    /\ last.result = "ok"
    /\ ~last.migrated
    /\ nfileops = 1
    /\ store = JsonFile(MixedStore)
    /\ legacy = LegacyFiles
    /\ Len(mgr.opnsense_profiles) = 1
    /\ mgr.opnsense_profiles[1].id = S_x

\* the ids drawn from uuid4() in this step
FreshIds == {Uuid4Hex(k) : k \in (uuid + 1)..uuid'}

\* the users read from a stored user list
UsersOf(list) == [i \in 1..Len(list.v) |-> User_from_dict(list.v[i])]

\* value as a string when it is given, else fallback
StrOr(value, fallback) == IF Truthy(value) THEN Str(value) ELSE fallback

\* this step's load() has turned the flat single-profile store into one profile
\* of each kind, both selected; user_keeps_id says whether the user profile is
\* to carry the legacy id too
FlatMigrated(d, o, p, user_keeps_id) ==
    /\ last'.result = "ok"
    /\ Len(o) = 1
    /\ Len(p) = 1
    /\ IF Truthy(Get(d, "id")) THEN o[1].id = Str(Get(d, "id")) ELSE o[1].id \in FreshIds
    /\ IF user_keeps_id /\ Truthy(Get(d, "id"))
       THEN p[1].id = Str(Get(d, "id"))
       ELSE p[1].id \in FreshIds \ {o[1].id}
    /\ o[1].name = StrOr(Get(d, "name"), DEFAULT_PROFILE_NAME)
    /\ p[1].name = StrOr(Get(d, "name"), DEFAULT_PROFILE_NAME)
    /\ DOMAIN o[1].settings.v = {"connection", "automation"}
    /\ o[1].settings.v["connection"] = DEFAULT_CONNECTION
    /\ Backfilled(Or(Get(d, "settings"), EmptyObj), DEFAULT_AUTOMATION,
                  o[1].settings.v["automation"])
    /\ p[1].users = UsersOf(Or(Get(d, "users"), EmptyArr))
    /\ mgr'.selected_opnsense_profile_id = JStr(o[1].id)
    /\ mgr'.selected_user_profile_id = JStr(p[1].id)

\* C13 (as stated; refuted): load() of a flat single-profile store yields one
\* OPNsense profile and one user profile, both with the legacy id and name when
\* present (a generated id, the default name otherwise), the legacy settings as
\* automation settings, the legacy users, and both selected.
C13_FlatBothKeepId ==
    [][(last'.op = "load" /\ store_shape(store) = "single_profile")
           => FlatMigrated(read_store(store), mgr'.opnsense_profiles, mgr'.user_profiles,
                           TRUE)]_vars

\* C13 (amended): as above, but only the OPNsense profile carries the legacy
\* id; the user profile always gets a generated id of its own.
C13_FlatUserIdFresh ==
    [][(last'.op = "load" /\ store_shape(store) = "single_profile")
           => FlatMigrated(read_store(store), mgr'.opnsense_profiles, mgr'.user_profiles,
                           FALSE)]_vars

\* C13 case: the flat store with id x and name N has just been migrated.
C13_Witness ==
    /\ last.op = "load"
    /\ last.migrated
    /\ nfileops = 1
    /\ Len(mgr.opnsense_profiles) = 1
    /\ mgr.opnsense_profiles[1].id = S_x
    /\ mgr.opnsense_profiles[1].name = <<"N">>
    /\ mgr.user_profiles[1].name = <<"N">>
    /\ mgr.user_profiles[1].id # S_x
    /\ Len(mgr.user_profiles[1].users) = 1

\* no two of the profiles have names equal ignoring case
NamesDiffer(profiles) ==
    \A i, j \in 1..Len(profiles) :
        i # j => Lower(profiles[i].name) # Lower(profiles[j].name)

\* the id the single-axis store records as selected / active
RecordedId(d) == Or(Get(d, "selected_profile_id"), Get(d, "active_profile_id"))

\* this step's load() has split the bundles into the OPNsense profiles o and
\* the user profiles p, bundle by bundle
BundlesSplit(d, bundles, o, p) ==
    /\ last'.result = "ok"
    /\ Len(o) = Len(bundles)
    /\ Len(p) = Len(bundles)
    /\ \A i \in 1..Len(bundles) :
           /\ IF Truthy(Get(bundles[i], "id"))
              THEN o[i].id = Str(Get(bundles[i], "id"))
              ELSE o[i].id \in FreshIds
           /\ DOMAIN o[i].settings.v = {"connection", "automation"}
           /\ Backfilled(Get(Or(Get(bundles[i], "settings"), EmptyObj), "connection"),
                         DEFAULT_CONNECTION, o[i].settings.v["connection"])
           /\ Backfilled(Get(Or(Get(bundles[i], "settings"), EmptyObj), "automation"),
                         DEFAULT_AUTOMATION, o[i].settings.v["automation"])
           /\ p[i].id \in FreshIds \ IdsOf(o)
           /\ \A j \in 1..Len(bundles) : i # j => p[i].id # p[j].id
           /\ p[i].users = UsersOf(Or(Get(bundles[i], "users"), EmptyArr))
           /\ o[i].name = p[i].name
    /\ NamesDiffer(o)
    /\ NamesDiffer(p)
    /\ mgr'.selected_opnsense_profile_id =
           IF Truthy(RecordedId(d)) /\ RecordedId(d).v \in IdsOf(o)
           THEN RecordedId(d)
           ELSE JStr(o[1].id)

\* C14 (as stated; refuted): load() of a single-axis store with N bundles
\* yields N OPNsense profiles and N user profiles in bundle order; the i-th
\* OPNsense profile has bundle i's id and its connection / automation settings,
\* the i-th user profile a fresh id and bundle i's users; the two have the same
\* name; names differ ignoring case on each axis; the selected OPNsense profile
\* is the one with the recorded id, the first when there is none.
C14_BundlesSplit ==
    [][(last'.op = "load" /\ store_shape(store) = "profiles")
           => BundlesSplit(read_store(store),
                           Or(Get(read_store(store), "profiles"), EmptyArr).v,
                           mgr'.opnsense_profiles, mgr'.user_profiles)]_vars

\* the profile records of config.profiles.json, none when it is absent or
\* does not parse
LegacyRecords(files) ==
    IF files.profiles.kind = "json"
    THEN Or(Get(files.profiles.doc, "profiles"), EmptyArr).v
    ELSE <<>>

\* the automation object of config.settings.json; null when there is none
SharedAutomation(files) ==
    IF files.settings.kind = "json" THEN files.settings.doc ELSE JNull

\* the user list of config.users.json, empty when there is none
SharedUsers(files) ==
    IF files.users.kind = "json" THEN Or(Get(files.users.doc, "users"), EmptyArr) ELSE EmptyArr

\* this step's load() has fanned the legacy files out into the OPNsense
\* profiles o and the user profiles p
FannedOut(files, o, p) ==
    /\ last'.result = "ok"
    /\ Len(o) = Len(p)
    /\ IF LegacyRecords(files) = <<>>
       THEN /\ Len(o) = 1
            /\ o[1].name = DEFAULT_PROFILE_NAME
            /\ p[1].name = DEFAULT_PROFILE_NAME
            /\ o[1].settings.v["connection"] = DEFAULT_CONNECTION
       ELSE /\ Len(o) = Len(LegacyRecords(files))
            /\ \A i \in 1..Len(o) :
                   o[i].settings.v["connection"] =
                       JObj([key \in DOMAIN DEFAULT_CONNECTION.v |->
                                IF Has(LegacyRecords(files)[i], key)
                                THEN LegacyRecords(files)[i].v[key]
                                ELSE DEFAULT_CONNECTION.v[key]])
    /\ \A i \in 1..Len(o) :
           /\ Backfilled(SharedAutomation(files), DEFAULT_AUTOMATION,
                         o[i].settings.v["automation"])
           /\ p[i].users = UsersOf(SharedUsers(files))

ExportTarget(profiles, selected_id, explicit_id) ==
    IF Truthy(explicit_id) THEN IndexOfId(profiles, explicit_id.v)
    ELSE IF selected_id # JNull /\ selected_id.v \in IdsOf(profiles)
         THEN IndexOfId(profiles, selected_id.v)
    ELSE IF profiles = <<>> THEN 0
    ELSE 1

\* file holds one entry per profile, in order: the profile's name as
\* ProfileName next to its connection fields
HoldsEveryProfile(file, profiles) ==
    /\ file.kind = "json"
    /\ DOMAIN file.doc.v = {"profiles"}
    /\ Len(file.doc.v["profiles"].v) = Len(profiles)
    /\ \A i \in 1..Len(profiles) :
           /\ file.doc.v["profiles"].v[i].v["ProfileName"] = JStr(profiles[i].name)
           /\ \A k \in DOMAIN profiles[i].settings.v["connection"].v :
                  file.doc.v["profiles"].v[i].v[k] = profiles[i].settings.v["connection"].v[k]
           /\ DOMAIN file.doc.v["profiles"].v[i].v =
                  {"ProfileName"} \cup DOMAIN profiles[i].settings.v["connection"].v

\* C16: a successful export_legacy_files leaves in config.profiles.json one
\* entry for every OPNsense profile, in collection order, and in
\* config.settings.json the automation object of the target profile: the one
\* with the explicit id if given, else the selected one, else the first.
C16_ExportsAllAndTarget ==
    [][(last'.op = "export_legacy_files" /\ last'.result = "ok")
           => /\ HoldsEveryProfile(legacy'.profiles, mgr.opnsense_profiles)
              /\ ExportTarget(mgr.opnsense_profiles, mgr.selected_opnsense_profile_id,
                              last'.args[1]) # 0
              /\ legacy'.settings =
                     JsonFile(mgr.opnsense_profiles[
                         ExportTarget(mgr.opnsense_profiles, mgr.selected_opnsense_profile_id,
                                      last'.args[1])].settings.v["automation"])]_vars

\* C16 case: an export without explicit id has just written both profiles and
\* the automation object of the selected, second profile, which is not that of
\* the first.
C16_Witness ==
    /\ last.op = "export_legacy_files"
    /\ last.result = "ok"
    /\ last.args[1] = JNull
    /\ Len(mgr.opnsense_profiles) = 2
    /\ mgr.selected_opnsense_profile_id = JStr(mgr.opnsense_profiles[2].id)
    /\ mgr.opnsense_profiles[1].id # mgr.opnsense_profiles[2].id
    /\ legacy.settings = JsonFile(mgr.opnsense_profiles[2].settings.v["automation"])
    /\ legacy.settings # JsonFile(mgr.opnsense_profiles[1].settings.v["automation"])
    /\ Len(legacy.profiles.doc.v["profiles"].v) = 2

NoUsersFile == JsonFile(JObj([users |-> EmptyArr]))

\* C17 (as stated; refuted): export_legacy_files fails on a manager without
\* OPNsense profiles; on one with OPNsense profiles and no user profile it
\* succeeds and leaves an empty users list in config.users.json.
C17_ExportWithoutUserProfiles ==
    [][last'.op = "export_legacy_files"
           => /\ mgr.opnsense_profiles = <<>> => last'.result # "ok"
              /\ (mgr.opnsense_profiles # <<>> /\ mgr.user_profiles = <<>>)
                     => (last'.result = "ok" /\ legacy'.users = NoUsersFile)]_vars

\* C17 (amended): export_legacy_files fails on a manager without OPNsense
\* profiles; on one with OPNsense profiles and no user profile it succeeds,
\* whatever user profile id and username are given, and leaves an empty users
\* list in config.users.json, unless an OPNsense profile id is given that no
\* profile has: then it fails.
C17_ExportWithoutUserProfilesResolved ==
    [][last'.op = "export_legacy_files"
           => /\ mgr.opnsense_profiles = <<>> => last'.result # "ok"
              /\ (mgr.opnsense_profiles # <<>> /\ mgr.user_profiles = <<>>)
                     => IF ExportTarget(mgr.opnsense_profiles,
                                        mgr.selected_opnsense_profile_id, last'.args[1]) = 0
                        THEN last'.result # "ok"
                        ELSE last'.result = "ok" /\ legacy'.users = NoUsersFile]_vars

\* C17 case: a manager holding one OPNsense profile and no user profile has
\* just exported, asked for a user profile that is not there.
C17_Witness ==
    /\ last.op = "export_legacy_files"
    /\ last.result = "ok"
    /\ last.args[2] = JStr(UnknownId)
    /\ Len(mgr.opnsense_profiles) = 1
    /\ mgr.user_profiles = <<>>
    /\ legacy.users = NoUsersFile

\* the users of the list whose username equals username ignoring case
Matching(users, username) ==
    {i \in 1..Len(users) : Lower(users[i].username) = Lower(username)}

\* this step's export, asked for username (null for none), is drawn from users
UsersExported(users, username) ==
    IF ~Truthy(username)
    THEN /\ last'.result = "ok"
         /\ legacy'.users =
                JsonFile(JObj([users |-> JArr([i \in 1..Len(users) |->
                    JObj([Name     |-> JStr(users[i].username),
                          Password |-> JStr(users[i].password),
                          Full     |-> JStr(users[i].full_name),
                          Email    |-> JStr(users[i].email)])])]))
    ELSE IF Matching(users, username.v) = {}
         THEN last'.result # "ok"
    ELSE /\ last'.result = "ok"
         /\ \E i \in Matching(users, username.v) :
                legacy'.users =
                    JsonFile(JObj([users |-> JArr(<<
                        JObj([Name     |-> JStr(users[i].username),
                              Password |-> JStr(users[i].password),
                              Full     |-> JStr(users[i].full_name),
                              Email    |-> JStr(users[i].email)])>>)]))

\* C18: an export whose target profiles resolve draws config.users.json from
\* the target user profile (explicit id, else selection, else first): asked for
\* a username, it holds the one user matching it ignoring case, and the call
\* fails when there is none; asked for none, it holds every user of the profile
\* in list order; each as Name / Password / Full / Email.
C18_ExportsTargetUsers ==
    [][(/\ last'.op = "export_legacy_files"
        /\ ExportTarget(mgr.opnsense_profiles, mgr.selected_opnsense_profile_id,
                        last'.args[1]) # 0
        /\ ExportTarget(mgr.user_profiles, mgr.selected_user_profile_id,
                        last'.args[2]) # 0)
           => UsersExported(
                  mgr.user_profiles[ExportTarget(mgr.user_profiles,
                                                 mgr.selected_user_profile_id,
                                                 last'.args[2])].users,
                  last'.args[3])]_vars

\* C18 case: asked for BOB in an explicitly named profile of two users that is
\* not the selected one, the export has just written the one user bob.
C18_Witness ==
    /\ last.op = "export_legacy_files"
    /\ last.result = "ok"
    /\ last.args[3] = JStr(<<"B", "O", "B">>)
    /\ last.args[2] # mgr.selected_user_profile_id
    /\ Len(mgr.user_profiles[IndexOfId(mgr.user_profiles, last.args[2].v)].users) = 2
    /\ Len(legacy.users.doc.v["users"].v) = 1
    /\ legacy.users.doc.v["users"].v[1].v["Name"] = JStr(S_bob)

\* this step's set-selected call with argument arg moved the pointer from
\* before to after as it should, over the listed profiles
SelectionSet(before, after, profiles, arg) ==
    IF arg # JNull /\ arg.v \notin IdsOf(profiles)
    THEN /\ last'.result # "ok"
         /\ after = before
         /\ last'.events = <<>>
    ELSE /\ last'.result = "ok"
         /\ after = arg
         /\ last'.events = IF before # arg THEN <<"selection_changed">> ELSE <<>>

\* C19: set_selected_opnsense_profile_id / set_selected_user_profile_id with an
\* id no profile has fails, the pointer and the notifications untouched;
\* otherwise the pointer is the argument afterwards, with one selection_changed
\* when its value changed and none when the argument was selected already
\* (null on null included).
C19_SetSelected ==
    [][/\ last'.op = "set_selected_opnsense_profile_id"
              => SelectionSet(mgr.selected_opnsense_profile_id,
                              mgr'.selected_opnsense_profile_id,
                              mgr.opnsense_profiles, last'.args[1])
       /\ last'.op = "set_selected_user_profile_id"
              => SelectionSet(mgr.selected_user_profile_id,
                              mgr'.selected_user_profile_id,
                              mgr.user_profiles, last'.args[1])]_vars

\* C19 case: the user profile that was selected has just been selected again,
\* without a notification.
C19_Witness ==
    /\ last.op = "set_selected_user_profile_id"
    /\ last.result = "ok"
    /\ last.events = <<>>
    /\ last.args[1] # JNull
    /\ last.args[1] = mgr.selected_user_profile_id
    /\ Len(mgr.user_profiles) = 2

\* the name a create call asks for: the trimmed input, Default when that is empty
AskedName(name) == IF Strip(name) = <<>> THEN DEFAULT_PROFILE_NAME ELSE Strip(name)

\* this step's create call has appended one profile named as asked to the
\* collection and left the profiles listed before as they were
Created(before, after, name) ==
    /\ last'.result = "ok"
    /\ Len(after) = Len(before) + 1
    /\ SubSeq(after, 1, Len(before)) = before
    /\ after[Len(after)].name = AskedName(name)

\* C20 (as stated; refuted): a create whose input name, trimmed, equals no
\* listed name of that kind ignoring case appends exactly one profile, named by
\* the trimmed input or Default when that is empty, and leaves the profiles
\* listed before unchanged and in order.
C20_CreateAppendsInputFree ==
    [][/\ (last'.op = "create_opnsense_profile"
              /\ ~Collides(mgr.opnsense_profiles, last'.args[1]))
              => Created(mgr.opnsense_profiles, mgr'.opnsense_profiles, last'.args[1])
       /\ (last'.op = "create_user_profile"
              /\ ~Collides(mgr.user_profiles, last'.args[1]))
              => Created(mgr.user_profiles, mgr'.user_profiles, last'.args[1])]_vars

\* C20 (amended): the same for a create whose asked name (the trimmed input,
\* Default when that is empty) equals no listed name of that kind ignoring case.
C20_CreateAppendsAskedFree ==
    [][/\ (last'.op = "create_opnsense_profile"
              /\ ~Collides(mgr.opnsense_profiles, AskedName(last'.args[1])))
              => Created(mgr.opnsense_profiles, mgr'.opnsense_profiles, last'.args[1])
       /\ (last'.op = "create_user_profile"
              /\ ~Collides(mgr.user_profiles, AskedName(last'.args[1])))
              => Created(mgr.user_profiles, mgr'.user_profiles, last'.args[1])]_vars

\* C20 case: a create with a name in surrounding blanks has just appended a
\* third profile under the trimmed name.
C20_Witness ==
    /\ last.op = "create_opnsense_profile"
    /\ last.result = "ok"
    /\ last.args[1] = <<" ", "A", " ">>
    /\ Len(mgr.opnsense_profiles) = 3
    /\ mgr.opnsense_profiles[3].name = <<"A">>

\* the number of times the notification is in the list
Count(events, event) == Cardinality({i \in 1..Len(events) : events[i] = event})

\* C21: a create_opnsense_profile that succeeds changes the selection pointer
\* exactly when no profile was selected before: the new profile is then the
\* selected one and one selection_changed is raised; otherwise the pointer
\* keeps its value and no selection_changed is raised; one
\* opnsense_profiles_changed is raised either way.
C21_CreateSelectsWhenNoneSelected ==
    [][(last'.op = "create_opnsense_profile" /\ last'.result = "ok")
           => /\ Count(last'.events, "opnsense_profiles_changed") = 1
              /\ (mgr'.selected_opnsense_profile_id # mgr.selected_opnsense_profile_id)
                     <=> (mgr.selected_opnsense_profile_id = JNull)
              /\ IF mgr.selected_opnsense_profile_id = JNull
                 THEN /\ mgr'.selected_opnsense_profile_id =
                             JStr(mgr'.opnsense_profiles[Len(mgr'.opnsense_profiles)].id)
                      /\ Count(last'.events, "selection_changed") = 1
                 ELSE /\ mgr'.selected_opnsense_profile_id = mgr.selected_opnsense_profile_id
                      /\ Count(last'.events, "selection_changed") = 0
              /\ Len(last'.events) = Count(last'.events, "opnsense_profiles_changed")
                                         + Count(last'.events, "selection_changed")]_vars

\* C21 case: after load() and a set_selected_opnsense_profile_id(None), a create
\* has just made its profile, the third, the selected one.
C21_Witness ==
    /\ loaded
    /\ nops = 2
    /\ last.op = "create_opnsense_profile"
    /\ last.result = "ok"
    /\ Count(last.events, "selection_changed") = 1
    /\ Len(mgr.opnsense_profiles) = 3
    /\ mgr.selected_opnsense_profile_id = JStr(mgr.opnsense_profiles[3].id)

\* the indices at which removing one profile from before gives after
RemovedAt(before, after) ==
    {i \in 1..Len(before) : after = SubSeq(before, 1, i - 1) \o SubSeq(before, i + 1, Len(before))}

\* C22: a delete_opnsense_profile that succeeds removes the profile with the
\* given id and nothing else, the others keeping their order; when that
\* profile was the selected one the pointer is the id of the first remaining
\* profile afterwards and selection_changed follows
\* opnsense_profiles_changed; when it was not, the pointer keeps its value and
\* opnsense_profiles_changed is the only notification.
C22_DeleteRemovesAndReselects ==
    [][(last'.op = "delete_opnsense_profile" /\ last'.result = "ok")
           => /\ \E i \in RemovedAt(mgr.opnsense_profiles, mgr'.opnsense_profiles) :
                     mgr.opnsense_profiles[i].id = last'.args[1]
              /\ mgr'.user_profiles = mgr.user_profiles
              /\ mgr'.selected_user_profile_id = mgr.selected_user_profile_id
              /\ IF mgr.selected_opnsense_profile_id = JStr(last'.args[1])
                 THEN /\ mgr'.selected_opnsense_profile_id = JStr(mgr'.opnsense_profiles[1].id)
                      /\ last'.events = <<"opnsense_profiles_changed", "selection_changed">>
                 ELSE /\ mgr'.selected_opnsense_profile_id = mgr.selected_opnsense_profile_id
                      /\ last'.events = <<"opnsense_profiles_changed">>]_vars

\* C22 case: the selected one of three profiles has just been deleted; the
\* first of the two remaining profiles is selected now.
C22_Witness ==
    /\ last.op = "delete_opnsense_profile"
    /\ last.result = "ok"
    /\ nops = 2
    /\ Len(mgr.opnsense_profiles) = 2
    /\ last.events = <<"opnsense_profiles_changed", "selection_changed">>
    /\ mgr.selected_opnsense_profile_id = JStr(mgr.opnsense_profiles[1].id)
    /\ last.args[1] \notin IdsOf(mgr.opnsense_profiles)

\* the names of the listed profiles
NamesOf(profiles) == {profiles[i].name : i \in 1..Len(profiles)}

\* name is base when no listed name equals it ignoring case, else base with
\* the first free copy suffix
FirstFreeCopyName(name, base, names) ==
    IF Lower(base) \notin LowerSet(names) THEN name = base
    ELSE \E n \in 1..(Cardinality(names) + 1) :
             /\ name = base \o (IF n = 1 THEN <<" ", "(", "c", "o", "p", "y", ")">>
                                 ELSE <<" ", "(", "c", "o", "p", "y", " ">> \o Dec(n) \o <<")">>)
             /\ Lower(name) \notin LowerSet(names)
             /\ \A k \in 1..(n - 1) :
                    Lower(base \o (IF k = 1 THEN <<" ", "(", "c", "o", "p", "y", ")">>
                                   ELSE <<" ", "(", "c", "o", "p", "y", " ">> \o Dec(k) \o <<")">>))
                        \in LowerSet(names)

\* this step's duplicate call, asked for new_name (null for none), has
\* appended a clone of source to before and selected it
Duplicated(before, after, source, new_name, pointer) ==
    /\ last'.result = "ok"
    /\ Len(after) = Len(before) + 1
    /\ SubSeq(after, 1, Len(before)) = before
    /\ after[Len(after)].id \notin IdsOf(before)
    /\ after[Len(after)].id \in FreshIds
    /\ FirstFreeCopyName(after[Len(after)].name,
                         AskedName(IF Truthy(new_name) THEN new_name.v ELSE source.name),
                         NamesOf(before))
    /\ pointer = JStr(after[Len(after)].id)

\* C23: duplicate_opnsense_profile of a listed profile succeeds: it appends a
\* clone with a fresh id, the source's settings and the unique name made from
\* the requested name (the source's when none is given) against the names of
\* all listed profiles, makes the clone the selected profile, and raises
\* opnsense_profiles_changed and selection_changed whatever was selected.
C23_DuplicateAppendsAndSelects ==
    [][(last'.op = "duplicate_opnsense_profile"
            /\ last'.args[1] \in IdsOf(mgr.opnsense_profiles))
           => /\ Duplicated(mgr.opnsense_profiles, mgr'.opnsense_profiles,
                            mgr.opnsense_profiles[IndexOfId(mgr.opnsense_profiles,
                                                            last'.args[1])],
                            last'.args[2], mgr'.selected_opnsense_profile_id)
              /\ mgr'.opnsense_profiles[Len(mgr'.opnsense_profiles)].settings =
                     mgr.opnsense_profiles[IndexOfId(mgr.opnsense_profiles,
                                                     last'.args[1])].settings
              /\ Count(last'.events, "opnsense_profiles_changed") = 1
              /\ Count(last'.events, "selection_changed") = 1
              /\ Len(last'.events) = 2]_vars

\* C23 case: the profile named a, not the selected one, has been duplicated
\* twice under its own name; the second clone is named a (copy 2) and selected.
C23_Witness ==
    /\ last.op = "duplicate_opnsense_profile"
    /\ last.result = "ok"
    /\ last.args[2] = JNull
    /\ nops = 2
    /\ Len(mgr.opnsense_profiles) = 4
    /\ mgr.opnsense_profiles[1].name = S_a
    /\ mgr.opnsense_profiles[3].name = S_a \o <<" ", "(", "c", "o", "p", "y", ")">>
    /\ mgr.opnsense_profiles[4].name = S_a \o <<" ", "(", "c", "o", "p", "y", " ", "2", ")">>
    /\ mgr.selected_opnsense_profile_id = JStr(mgr.opnsense_profiles[4].id)

\* the ids and names of the listed profiles, in order
Outline(profiles) == [i \in 1..Len(profiles) |-> <<profiles[i].id, profiles[i].name>>]

\* the manager whose OPNsense side is the user side of m: the same ids and
\* names in the same order, the same pointer
AsOpnsenseSide(m) ==
    [opnsense_profiles |-> [i \in 1..Len(m.user_profiles) |->
                               [id       |-> m.user_profiles[i].id,
                                name     |-> m.user_profiles[i].name,
                                settings |-> EmptyObj]],
     user_profiles                |-> <<>>,
     selected_opnsense_profile_id |-> m.selected_user_profile_id,
     selected_user_profile_id     |-> JNull]

\* the notifications with user_profiles_changed for opnsense_profiles_changed
AsUserEvents(events) ==
    [i \in 1..Len(events) |->
        IF events[i] = "opnsense_profiles_changed" THEN "user_profiles_changed" ELSE events[i]]

\* this step's user-profile call came out as r, the outcome of the OPNsense
\* call on the mirrored manager: same result, ids, names, order, pointer and
\* notifications
Mirrors(r) ==
    /\ last'.result = r.result
    /\ Outline(mgr'.user_profiles) = Outline(r.m.opnsense_profiles)
    /\ mgr'.selected_user_profile_id = r.m.selected_opnsense_profile_id
    /\ last'.events = AsUserEvents(r.events)
    /\ uuid' = r.uuid

\* C25 (as stated; refuted): each create / rename / delete / duplicate /
\* set-selected call on the user-profile collection comes out as the
\* corresponding call on an OPNsense-profile collection of the same ids, names,
\* order and pointer: the same success or failure, the same resulting names,
\* order and pointer, and the same notifications with user_profiles_changed
\* for opnsense_profiles_changed and no other kind.  Holding for every call
\* from every reachable collection, it holds for every sequence of calls.
C25_UserSideMirrors ==
    [][/\ last'.op = "create_user_profile"
              => Mirrors(create_opnsense_profile(AsOpnsenseSide(mgr), uuid,
                                                 last'.args[1], JNull))
       /\ last'.op = "rename_user_profile"
              => Mirrors(rename_opnsense_profile(AsOpnsenseSide(mgr), uuid,
                                                 last'.args[1], last'.args[2]))
       /\ last'.op = "delete_user_profile"
              => Mirrors(delete_opnsense_profile(AsOpnsenseSide(mgr), uuid, last'.args[1]))
       /\ last'.op = "duplicate_user_profile"
              => Mirrors(duplicate_opnsense_profile(AsOpnsenseSide(mgr), uuid,
                                                    last'.args[1], last'.args[2]))
       /\ last'.op = "set_selected_user_profile_id"
              => Mirrors(set_selected_opnsense_profile_id(AsOpnsenseSide(mgr), uuid,
                                                          last'.args[1]))]_vars

\* some listed user has this username, ignoring case
NamedLike(users, username) ==
    \E k \in 1..Len(users) : Lower(users[k].username) = Lower(username)

\* this step's add_user of user to the i-th user profile came out as it should
\* when the user is stored under stored_username
UserAdded(i, user, stored_username) ==
    IF Strip(user.username) = <<>> \/ NamedLike(mgr.user_profiles[i].users, Strip(user.username))
    THEN FailsUnchanged /\ last'.events = <<>>
    ELSE /\ last'.result = "ok"
         /\ mgr' = [mgr EXCEPT !.user_profiles[i].users =
                        @ \o <<[username          |-> stored_username,
                                password          |-> user.password,
                                full_name         |-> user.full_name,
                                email             |-> user.email,
                                original_username |-> JNull]>>]
         /\ last'.events = <<"user_list_changed">>

\* C26 (as stated; refuted): add_user on a listed user profile fails, changing
\* nothing, when the trimmed username is empty or equals, ignoring case, the
\* username of a user of that profile; otherwise it appends one user at the end
\* of that profile's list, stored under the trimmed username with the given
\* password, full name and email and no rename marker, raises one
\* user_list_changed and changes nothing else.
C26_AddUserStoresTrimmed ==
    [][(last'.op = "add_user" /\ last'.args[1] \in IdsOf(mgr.user_profiles))
           => UserAdded(IndexOfId(mgr.user_profiles, last'.args[1]), last'.args[2],
                        Strip(last'.args[2].username))]_vars

\* the name update_user looks its target up by: original_username when given,
\* else username
TargetName(user) ==
    Strip(IF Truthy(user.original_username) THEN user.original_username.v ELSE user.username)

\* the indices of the listed users with this username, ignoring case
NamedAt(users, username) == {k \in 1..Len(users) : Lower(users[k].username) = Lower(username)}

\* C27 (as stated; refuted): an update_user whose new username is not the
\* original one and equals, ignoring case, the username of a user of the
\* profile other than the one it is to replace fails and leaves the manager,
\* the whole user list included, as it was.
C27_UpdateCollisionFails ==
    [][(/\ last'.op = "update_user"
        /\ last'.args[1] \in IdsOf(mgr.user_profiles)
        /\ NamedAt(mgr.user_profiles[IndexOfId(mgr.user_profiles, last'.args[1])].users,
                   TargetName(last'.args[2])) # {}
        /\ Strip(last'.args[2].username) # TargetName(last'.args[2])
        /\ \E k \in NamedAt(mgr.user_profiles[IndexOfId(mgr.user_profiles,
                                                         last'.args[1])].users,
                             Strip(last'.args[2].username)) :
               k # first_of(NamedAt(mgr.user_profiles[IndexOfId(mgr.user_profiles,
                                                                last'.args[1])].users,
                                    TargetName(last'.args[2]))))
           => FailsUnchanged]_vars

\* this step's update_user of the user list before (after it: after) came out
\* as it should
UserUpdated(before, after, user) ==
    IF NamedAt(before, TargetName(user)) = {}
    THEN last'.result = "not_found" /\ after = before /\ last'.events = <<>>
    ELSE /\ (\A k \in NamedAt(before, Strip(user.username)) :
                 k \in NamedAt(before, TargetName(user)))
             => last'.result = "ok"
         /\ last'.result = "ok"
                => /\ Len(after) = Len(before)
                   /\ \E idx \in NamedAt(before, TargetName(user)) :
                          /\ after[idx] = [username          |-> user.username,
                                           password          |-> user.password,
                                           full_name         |-> user.full_name,
                                           email             |-> user.email,
                                           original_username |-> JNull]
                          /\ \A k \in 1..Len(before) : k # idx => after[k] = before[k]
                   /\ last'.events = <<"user_list_changed">>

C30_MakeUniqueName ==
    last.op = "make_unique_name"
        => /\ Lower(last.result) \notin LowerSet(last.args[2])
           /\ FirstFreeCopyName(last.result, AskedName(last.args[1]), last.args[2])

\* C30 case: Foo, Foo (copy), Foo (copy 2) and Foo (copy 3) are taken, in
\* several cases, and so is Foo (copy 5); the name made from " Foo " is
\* Foo (copy 4).
C30_Witness ==
    /\ last.op = "make_unique_name"
    /\ last.args[1] = <<" ">> \o S_Foo \o <<" ">>
    /\ Cardinality(last.args[2]) >= 5
    /\ last.result = S_Foo \o <<" ", "(", "c", "o", "p", "y", " ", "4", ")">>

\* the calls that change the users of one user profile
UserCalls == {"add_user", "update_user", "delete_user", "set_password"}

\* the calls that change the settings of one OPNsense profile
SettingsCalls == {"update_opnsense_connection", "update_opnsense_settings"}

\* every user profile but the one with the id keeps its users over the step
OtherUsersKept(id) ==
    /\ Len(mgr'.user_profiles) = Len(mgr.user_profiles)
    /\ \A k \in 1..Len(mgr.user_profiles) :
           mgr.user_profiles[k].id # id =>
               users_at(heap', mgr'.user_profiles[k].users)
                   = users_at(heap, mgr.user_profiles[k].users)

\* every OPNsense profile but the one with the id keeps its settings over the step
OtherSettingsKept(id) ==
    /\ Len(mgr'.opnsense_profiles) = Len(mgr.opnsense_profiles)
    /\ \A k \in 1..Len(mgr.opnsense_profiles) :
           mgr.opnsense_profiles[k].id # id =>
               deref(heap', Ref(mgr'.opnsense_profiles[k].settings))
                   = deref(heap, Ref(mgr.opnsense_profiles[k].settings))

\* C24: a duplicated profile shares no mutable state with its source.  Adding,
\* updating or deleting a user of one user profile, or assigning a field of one
\* of its users, leaves the users of every other user profile as they were, so
\* a change in a clone never shows in its source nor one in the source in its
\* clone; update_opnsense_connection and update_opnsense_settings on one
\* OPNsense profile leave the settings of every other OPNsense profile as they
\* were.
C24_CloneSharesNothing ==
    [][/\ last'.op \in UserCalls => OtherUsersKept(last'.args[1])
       /\ last'.op \in SettingsCalls => OtherSettingsKept(last'.args[1])]_vars

\* C24 witness: the third user profile is the clone of the first, a password
\* of one of its two users has just been assigned, and the source still holds
\* the two passwords of the store while the clone differs from it.
C24_Witness ==
    /\ last.op = "set_password"
    /\ Len(mgr.user_profiles) = 3
    /\ last.args[1] = mgr.user_profiles[3].id
    /\ mgr.user_profiles[3].name = make_unique_name(S_a, {S_a, S_b})
    /\ Len(users_at(heap, mgr.user_profiles[1].users)) = 2
    /\ users_at(heap, mgr.user_profiles[1].users)[1].password = <<"1">>
    /\ users_at(heap, mgr.user_profiles[1].users)[2].password = <<"2">>
    /\ Len(users_at(heap, mgr.user_profiles[3].users)) = 2
    /\ users_at(heap, mgr.user_profiles[3].users)
           # users_at(heap, mgr.user_profiles[1].users)

\* the settings of the profile, by value, without their automation
WithoutAutomation(settings) ==
    [key \in DOMAIN settings.v \ {"automation"} |-> settings.v[key]]

\* over the step the i-th OPNsense profile got payload as its automation and
\* nothing else of the manager changed
AutomationReplaced(before, after, i, payload) ==
    /\ after.opnsense_profiles[i].settings.v["automation"] = payload
    /\ WithoutAutomation(after.opnsense_profiles[i].settings)
           = WithoutAutomation(before.opnsense_profiles[i].settings)
    /\ after.opnsense_profiles[i].id = before.opnsense_profiles[i].id
    /\ after.opnsense_profiles[i].name = before.opnsense_profiles[i].name
    /\ Len(after.opnsense_profiles) = Len(before.opnsense_profiles)
    /\ \A k \in 1..Len(before.opnsense_profiles) :
           k # i => after.opnsense_profiles[k] = before.opnsense_profiles[k]
    /\ after.user_profiles = before.user_profiles
    /\ after.selected_opnsense_profile_id = before.selected_opnsense_profile_id
    /\ after.selected_user_profile_id = before.selected_user_profile_id

\* C29: update_opnsense_settings replaces the automation object of the target
\* profile by a copy of the caller's payload.  After a successful call the
\* stored automation equals the payload, which is one of the payloads given
\* and is itself unchanged; the profile's id, name and connection, every other
\* profile and both selection pointers are as before.  When the caller later
\* assigns a key of its payload, at the top or in the nested group, the payload
\* changes and nothing of the manager does.
C29_SettingsReplacedWholesale ==
    [][/\ (last'.op = "update_opnsense_settings" /\ last'.result = "ok") =>
            /\ \E k \in 1..Len(AutomationInputs) :
                   deref(heap', last'.args[2]) = AutomationInputs[k]
            /\ AutomationReplaced(view(mgr, heap), view(mgr', heap'),
                                  get_opnsense_profile(view(mgr, heap), last'.args[1]),
                                  deref(heap', last'.args[2]))
       /\ last'.op = "write_payload" =>
            /\ deref(heap', last'.args[2]) # deref(heap, last'.args[2])
            /\ view(mgr', heap') = view(mgr, heap)]_vars

\* C29 witness: the first profile, which held the complete automation object,
\* was given the two-key payload, the caller then assigned a key of the
\* payload's nested group, and the profile holds exactly the two-key payload,
\* which the caller's dict no longer equals.
C29_Witness ==
    /\ last.op = "write_payload"
    /\ last.args[3] = 2
    /\ last.args[1] = mgr.opnsense_profiles[1].id
    /\ deref(heap, Ref(mgr.opnsense_profiles[1].settings)).v["automation"] = PartialAutomation
    /\ deref(heap, last.args[2]) # PartialAutomation

\* username is base when no taken username equals it ignoring case, else
\* base-copy when that is free, else base-copy-n for the least free n >= 2
FirstFreeCopyUsername(username, base, taken) ==
    IF Lower(base) \notin LowerSet(taken) THEN username = base
    ELSE \E n \in 1..(Cardinality(taken) + 1) :
             /\ username = base \o (IF n = 1 THEN <<"-", "c", "o", "p", "y">>
                                     ELSE <<"-", "c", "o", "p", "y", "-">> \o Dec(n))
             /\ Lower(username) \notin LowerSet(taken)
             /\ \A k \in 1..(n - 1) :
                    Lower(base \o (IF k = 1 THEN <<"-", "c", "o", "p", "y">>
                                   ELSE <<"-", "c", "o", "p", "y", "-">> \o Dec(k)))
                        \in LowerSet(taken)

\* the base make_unique_username works from: the trimmed input, the template's
\* username when that is empty
AskedUsername(base) ==
    IF Strip(base) = <<>> THEN DEFAULT_USER_TEMPLATE.v["username"].v ELSE Strip(base)

\* C31 (as stated; refuted): make_unique_username returns, for every base
\* username and every finite set of taken usernames, a username that equals no
\* taken username ignoring case: the base as given when it is free, else
\* base-copy when that is free, else base-copy-n for the least n >= 2 that is
\* free.
C31_MakeUniqueUsernameFromBase ==
    last.op = "make_unique_username"
        => /\ Lower(last.result) \notin LowerSet(last.args[2])
           /\ FirstFreeCopyUsername(last.result, last.args[1], last.args[2])

\* C31 (amended): the same with the base trimmed first, and the template's
\* username user1 taken as base when the trimmed base is empty.
C31_MakeUniqueUsername ==
    last.op = "make_unique_username"
        => /\ Lower(last.result) \notin LowerSet(last.args[2])
           /\ FirstFreeCopyUsername(last.result, AskedUsername(last.args[1]), last.args[2])

\* C31 case: bob, bob-copy, bob-copy-2 and bob-copy-3 are taken, in several
\* cases, and so is bob-copy-5; the username made from bob is bob-copy-4.
C31_Witness ==
    /\ last.op = "make_unique_username"
    /\ last.args[1] = S_bob
    /\ Cardinality(last.args[2]) >= 5
    /\ last.result = S_bob \o <<"-", "c", "o", "p", "y", "-", "4">>

\* the calls whose first argument is the id of an OPNsense profile
OpnsenseIdCalls ==
    {"rename_opnsense_profile", "delete_opnsense_profile", "duplicate_opnsense_profile",
     "update_opnsense_connection", "update_opnsense_settings"}

\* the calls whose first argument is the id of a user profile
UserProfileIdCalls ==
    {"rename_user_profile", "delete_user_profile", "duplicate_user_profile",
     "add_user", "update_user", "delete_user", "duplicate_user"}

\* id is given (not null) and no listed profile has it
Unknown(id, profiles) == id # JNull /\ id.v \notin IdsOf(profiles)

\* C32: in every state, a call that takes a profile id fails with a not-found
\* failure when no profile of that kind has the id: the calls that name an
\* OPNsense or user profile by their first argument, set_selected_*_profile_id
\* with an id that is not null, and export_legacy_files with an explicit id
\* of either kind.
C32_UnknownIdNotFound ==
    [][/\ (last'.op \in OpnsenseIdCalls /\ last'.args[1] \notin IdsOf(mgr.opnsense_profiles))
            => last'.result = "not_found"
       /\ (last'.op \in UserProfileIdCalls /\ last'.args[1] \notin IdsOf(mgr.user_profiles))
            => last'.result = "not_found"
       /\ (last'.op = "set_selected_opnsense_profile_id"
               /\ Unknown(last'.args[1], mgr.opnsense_profiles))
            => last'.result = "not_found"
       /\ (last'.op = "set_selected_user_profile_id"
               /\ Unknown(last'.args[1], mgr.user_profiles))
            => last'.result = "not_found"
       /\ (last'.op = "export_legacy_files"
               /\ (\/ Unknown(last'.args[1], mgr.opnsense_profiles)
                   \/ Unknown(last'.args[2], mgr.user_profiles)))
            => last'.result = "not_found"]_vars

\* the ids of the listed profiles, in order
IdSeq(profiles) == [i \in 1..Len(profiles) |-> profiles[i].id]

\* no two listed profiles have the same id
IdsUnique(profiles) ==
    \A i, j \in 1..Len(profiles) : i # j => profiles[i].id # profiles[j].id

\* over this step every profile that stays listed keeps its id: a delete
\* removes one entry of the id sequence, a create or duplicate appends one
\* that no listed profile has, every other call leaves the sequence as it was
IdsKept(before, after, creates, deletes) ==
    IF last'.op \in creates /\ last'.result = "ok"
    THEN /\ Len(after) = Len(before) + 1
         /\ SubSeq(IdSeq(after), 1, Len(before)) = IdSeq(before)
         /\ after[Len(after)].id \notin IdsOf(before)
    ELSE IF last'.op \in deletes /\ last'.result = "ok"
    THEN \E k \in 1..Len(before) : IdSeq(after) = RemoveAt(IdSeq(before), k)
    ELSE IdSeq(after) = IdSeq(before)

\* C33: profile ids are unique within each collection in every reachable
\* state, the states load() produces from any store included; create and
\* duplicate give the new profile an id no listed profile has; and every call
\* other than load() leaves the id of every profile that stays listed as it
\* was.
C33_IdsUniqueAndStable ==
    [][/\ IdsUnique(mgr'.opnsense_profiles)
       /\ IdsUnique(mgr'.user_profiles)
       /\ last'.op # "load" =>
            /\ IdsKept(mgr.opnsense_profiles, mgr'.opnsense_profiles,
                       {"create_opnsense_profile", "duplicate_opnsense_profile"},
                       {"delete_opnsense_profile"})
            /\ IdsKept(mgr.user_profiles, mgr'.user_profiles,
                       {"create_user_profile", "duplicate_user_profile"},
                       {"delete_user_profile"})]_vars

\* C37: export_legacy_files is all-or-nothing: whenever the call fails (no
\* OPNsense profile, an unknown explicit profile id, a username the target
\* user profile does not hold), none of the three legacy files has been
\* rewritten.
C37_FailedExportWritesNothing ==
    [][(last'.op = "export_legacy_files" /\ last'.result # "ok") => legacy' = legacy]_vars

----------------------------------------------------------------------------
(* The legacy files as a way back in: after a successful export the three  *)
(* files are all that is kept (config.gui.json is removed, or the files are *)
(* carried to an installation that has none), and the application starts   *)
(* from them.                                                              *)

\* the primary store goes away after a successful export_legacy_files; the next
\* load() finds path.exists() false and reads the three legacy files
RemovePrimaryStore ==
    /\ loaded
    /\ last.op = "export_legacy_files"
    /\ last.result = "ok"
    /\ store.kind # "absent"
    /\ store' = AbsentFile
    /\ last' = [last EXCEPT !.op = "remove_store"]
    /\ UNCHANGED <<mgr, loaded, legacy, uuid, nops, nfileops, heap, app>>

LegacyNext ==
    \/ Next
    \/ RemovePrimaryStore

LegacySpec == Init /\ [][LegacyNext]_vars

\* the four fields of each user, in order
UserFields(users) ==
    [i \in 1..Len(users) |->
        <<users[i].username, users[i].password, users[i].full_name, users[i].email>>]

\* the profile export_legacy_files took as its OPNsense target
ExportedOpnsense(m, args) ==
    m.opnsense_profiles[resolve_profile(m.opnsense_profiles,
                                        m.selected_opnsense_profile_id, args[1])]

\* the profile export_legacy_files took as its user target
ExportedUserProfile(m, args) ==
    m.user_profiles[resolve_profile(m.user_profiles, m.selected_user_profile_id, args[2])]

\* the reloaded manager has the exporting manager's OPNsense profiles by name,
\* order and connection
SameProfilesByName(m, reloaded) ==
    /\ Len(reloaded.opnsense_profiles) = Len(m.opnsense_profiles)
    /\ \A i \in 1..Len(m.opnsense_profiles) :
           /\ reloaded.opnsense_profiles[i].name = m.opnsense_profiles[i].name
           /\ Get(reloaded.opnsense_profiles[i].settings, "connection")
                  = Get(m.opnsense_profiles[i].settings, "connection")

\* every reloaded OPNsense profile carries the automation object given
EachCarries(reloaded, automation) ==
    \A i \in 1..Len(reloaded.opnsense_profiles) :
        Get(reloaded.opnsense_profiles[i].settings, "automation") = automation

\* every reloaded user profile holds the users given
EachHolds(reloaded, users) ==
    \A j \in 1..Len(reloaded.user_profiles) :
        UserFields(reloaded.user_profiles[j].users) = UserFields(users)

\* C40: an export without a username followed by a load() with no primary store
\* present yields OPNsense profiles with the exporting manager's names, order
\* and connection fields, each carrying the exported target profile's
\* automation object, and user profiles each holding the exported target user
\* profile's users.
C40_LegacyRoundTrip ==
    [][(last.op = "remove_store" /\ last.args[3] = JNull /\ last'.op = "load")
           => /\ last'.result = "ok"
              /\ SameProfilesByName(mgr, mgr')
              /\ EachCarries(mgr', Get(ExportedOpnsense(mgr, last.args).settings, "automation"))
              /\ EachHolds(mgr', ExportedUserProfile(mgr, last.args).users)]_vars

\* every OPNsense profile name is non-empty, has no surrounding whitespace and
\* is unique ignoring case
NamesInOrder(m) ==
    \A i \in 1..Len(m.opnsense_profiles) :
        /\ m.opnsense_profiles[i].name # <<>>
        /\ Strip(m.opnsense_profiles[i].name) = m.opnsense_profiles[i].name
        /\ \A j \in 1..Len(m.opnsense_profiles) :
               Lower(m.opnsense_profiles[i].name) = Lower(m.opnsense_profiles[j].name)
                   => i = j

\* the automation object holds every recognized key, nested ones included
AutomationComplete(automation) ==
    /\ HasAll(automation, DEFAULT_AUTOMATION)
    /\ \A g \in NestedGroups : HasAll(automation.v[g], DEFAULT_AUTOMATION.v[g])

\* the reloaded manager has the exporting manager's OPNsense profiles by order
\* and connection, and by name when the names given are in order
SameProfiles(m, reloaded) ==
    /\ Len(reloaded.opnsense_profiles) = Len(m.opnsense_profiles)
    /\ \A i \in 1..Len(m.opnsense_profiles) :
           /\ NamesInOrder(m) => reloaded.opnsense_profiles[i].name = m.opnsense_profiles[i].name
           /\ Get(reloaded.opnsense_profiles[i].settings, "connection")
                  = Get(m.opnsense_profiles[i].settings, "connection")

\* C40 (amended): an export without a username followed by a load() with no
\* primary store present yields as many OPNsense profiles as the exporting
\* manager has, in its order and with its connection fields, and with its names
\* when those are non-empty, trimmed and unique ignoring case; each carries the
\* exported target profile's automation object when that holds every recognized
\* key; every user profile holds the exported target user profile's users.
C40_LegacyRoundTripWhenInOrder ==
    [][(last.op = "remove_store" /\ last.args[3] = JNull /\ last'.op = "load")
           => /\ last'.result = "ok"
              /\ SameProfiles(mgr, mgr')
              /\ AutomationComplete(Get(ExportedOpnsense(mgr, last.args).settings, "automation"))
                     => EachCarries(mgr', Get(ExportedOpnsense(mgr, last.args).settings,
                                              "automation"))
              /\ EachHolds(mgr', ExportedUserProfile(mgr, last.args).users)]_vars

\* C40 case: two profiles were exported after an edit and read back from the
\* legacy files alone: the second profile's name and key are back, both carry
\* the exported automation object and both user profiles hold its two users.
C40_Witness ==
    /\ last.op = "load"
    /\ last.migrated
    /\ nfileops = 2
    /\ nops = 2
    /\ Len(mgr.opnsense_profiles) = 2
    /\ mgr.opnsense_profiles[2].name = LegacyRecords(legacy)[2].v["ProfileName"].v
    /\ Get(mgr.opnsense_profiles[1].settings, "automation") = SharedAutomation(legacy)
    /\ Get(mgr.opnsense_profiles[2].settings, "automation") = SharedAutomation(legacy)
    /\ Len(mgr.user_profiles) = 2
    /\ Len(mgr.user_profiles[2].users) = 2
    /\ UserFields(mgr.user_profiles[1].users) = UserFields(mgr.user_profiles[2].users)

----------------------------------------------------------------------------
(* The application window (gui_app.py): App holds the manager, the current  *)
(* selections, the selections of the Actions tab, the two run buttons and   *)
(* the worker threads it has started.  Handlers run to completion on the    *)
(* Tk thread; a worker thread takes its steps in between.  The manager's    *)
(* listeners run inside the manager call that notifies them.                *)

\* Bound on the number of handlers the user triggers in one run.
MaxUiEvents == 3

\* Bound on the number of worker threads started in one run.
MaxRuns == 2

\* tk.NORMAL, tk.DISABLED
NORMAL == "normal"

DISABLED == "disabled"

\* [profile.id for profile in profiles]
profile_ids(profiles) == [i \in 1..Len(profiles) |-> profiles[i].id]

\* selected_id in ids, for an id that may be None
in_ids(selected_id, ids) ==
    /\ selected_id # JNull
    /\ \E i \in 1..Len(ids) : ids[i] = selected_id.v

\* self with its manager: what a handler or a listener works on
Self(m, a) == [m |-> m, a |-> a]

update_action_buttons_state(a) ==
    [a EXCEPT !.button_state =
        IF a.actions_opnsense_profile_id # JNull /\ a.actions_user_profile_id # JNull
        THEN NORMAL
        ELSE DISABLED]

set_button_state(a, state) == [a EXCEPT !.button_state = state]

refresh_action_opnsense_selector(m, a) ==
    LET ids == profile_ids(m.opnsense_profiles)
    IN  update_action_buttons_state(
            [a EXCEPT !.action_opnsense_ids = ids,
                      !.actions_opnsense_profile_id =
                          IF in_ids(a.actions_opnsense_profile_id, ids)
                          THEN a.actions_opnsense_profile_id
                          ELSE Or(a.current_opnsense_profile_id,
                                  IF ids # <<>> THEN JStr(ids[1]) ELSE JNull)])

refresh_action_user_profile_selector(m, a) ==
    LET ids == profile_ids(m.user_profiles)
    IN  update_action_buttons_state(
            [a EXCEPT !.action_user_profile_ids = ids,
                      !.actions_user_profile_id =
                          IF in_ids(a.actions_user_profile_id, ids)
                          THEN a.actions_user_profile_id
                          ELSE Or(a.current_user_profile_id,
                                  IF ids # <<>> THEN JStr(ids[1]) ELSE JNull)])

\* the label and the list boxes it also refreshes are not kept
on_app_state_user_profile_changed(g) ==
    [g EXCEPT !.a = refresh_action_user_profile_selector(g.m, g.a)]

\* AppState.set_current_user_profile_id with the one callback App registers
set_current_user_profile_id(g, profile_id) ==
    IF g.a.current_user_profile_id = profile_id THEN g
    ELSE on_app_state_user_profile_changed([g EXCEPT !.a.current_user_profile_id = profile_id])

on_selection_changed(g) ==
    LET g1 == IF g.m.selected_opnsense_profile_id # g.a.current_opnsense_profile_id
              THEN [g EXCEPT !.a = refresh_action_opnsense_selector(g.m,
                                       [g.a EXCEPT !.current_opnsense_profile_id =
                                                       g.m.selected_opnsense_profile_id])]
              ELSE g
        g2 == IF g1.m.selected_user_profile_id # g1.a.current_user_profile_id
              THEN set_current_user_profile_id(g1, g1.m.selected_user_profile_id)
              ELSE g1
    IN  [g2 EXCEPT !.a = update_action_buttons_state(g2.a)]

\* the manager call it makes when nothing is selected notifies selection_changed
on_opnsense_profiles_changed(g) ==
    LET repoint     == g.m.selected_opnsense_profile_id = JNull /\ g.m.opnsense_profiles # <<>>
        selected_id == IF repoint THEN JStr(g.m.opnsense_profiles[1].id)
                       ELSE g.m.selected_opnsense_profile_id
        g1          == IF repoint
                       THEN on_selection_changed(
                                [g EXCEPT !.m.selected_opnsense_profile_id = selected_id])
                       ELSE g
    IN  [g1 EXCEPT !.a = refresh_action_opnsense_selector(g1.m,
                             [g1.a EXCEPT !.current_opnsense_profile_id = selected_id])]

\* whether or not set_current_user_profile_id reports a change, the callback runs
on_user_profiles_changed(g) ==
    LET repoint     == g.m.selected_user_profile_id = JNull /\ g.m.user_profiles # <<>>
        selected_id == IF repoint THEN JStr(g.m.user_profiles[1].id)
                       ELSE g.m.selected_user_profile_id
        g1          == IF repoint
                       THEN on_selection_changed(
                                [g EXCEPT !.m.selected_user_profile_id = selected_id])
                       ELSE g
    IN  on_app_state_user_profile_changed([g1 EXCEPT !.a.current_user_profile_id = selected_id])

\* the callback registered for one event; user_list_changed only refreshes the
\* user list box
listener(g, event) ==
    CASE event = "opnsense_profiles_changed" -> on_opnsense_profiles_changed(g)
      [] event = "user_profiles_changed"     -> on_user_profiles_changed(g)
      [] event = "selection_changed"         -> on_selection_changed(g)
      [] OTHER                               -> g

\* ConfigManager._notify for events[k..], raised once the call has changed the
\* manager
RECURSIVE notify(_, _, _)
notify(g, events, k) ==
    IF k > Len(events) THEN g ELSE notify(listener(g, events[k]), events, k + 1)

\* App._get_selected_opnsense_profile: its index, 0 for None
get_selected_opnsense_profile(g) ==
    IF ~Truthy(g.a.current_opnsense_profile_id) THEN 0
    ELSE get_opnsense_profile(g.m, g.a.current_opnsense_profile_id.v)

\* where a write of export_legacy_files raises OSError, if anywhere, and
\* whether the file it was opening is left truncated
IoInputs ==
    {[at |-> "none", damaged |-> FALSE]}
        \cup {[at |-> f, damaged |-> d] : f \in {"profiles", "settings", "users"}, d \in BOOLEAN}

\* export_legacy_files when the file system fails as in io: the files written
\* before the failing write stay written, result "io_error" stands for OSError
export_legacy_files_io(m, files, opnsense_profile_id, user_profile_id, username, io) ==
    LET r   == export_legacy_files(m, files, opnsense_profile_id, user_profile_id, username)
        hit == IF io.damaged THEN MalformedFile ELSE files[io.at]
    IN  IF io.at = "none" \/ r.result \in {"no_profiles", "not_found"} THEN r
        ELSE IF io.at = "profiles"
             THEN [files |-> [files EXCEPT !.profiles = hit], result |-> "io_error"]
        ELSE IF io.at = "settings"
             THEN [files |-> [files EXCEPT !.profiles = r.files.profiles, !.settings = hit],
                   result |-> "io_error"]
        ELSE IF r.result # "ok" THEN r
        ELSE [files |-> [r.files EXCEPT !.users = hit],
              result |-> "io_error"]

\* Fault: every failure of the export is swallowed.
persist_and_export_swallowing(m, files, profile_id, user_profile_id, username, suppress_errors, io) ==
    LET e == export_legacy_files_io(m, files, profile_id, user_profile_id, username, io)
    IN  [store |-> save(m), files |-> e.files, export |-> e.result, raised |-> "none"]

\* Fault: the export is made for the selected profiles, not for the ones given.
persist_and_export_for_selected(m, files, profile_id, user_profile_id, username, suppress_errors, io) ==
    LET e == export_legacy_files_io(m, files, JNull, JNull, username, io)
    IN  [store |-> save(m), files |-> e.files, export |-> e.result,
         raised |-> IF e.result = "ok" THEN "none"
                    ELSE IF e.result = "io_error" THEN "OSError"
                    ELSE IF suppress_errors THEN "none"
                    ELSE "ValueError"]

\* _persist_and_export: the store and the legacy files as it leaves them, the
\* outcome of the export and the exception that leaves the function
persist_and_export(m, files, profile_id, user_profile_id, username, suppress_errors, io) ==
    LET e == export_legacy_files_io(m, files, profile_id, user_profile_id, username, io)
    IN  [store |-> save(m), files |-> e.files, export |-> e.result,
         raised |-> IF e.result = "ok" THEN "none"
                    ELSE IF e.result = "io_error" THEN "OSError"
                    ELSE IF suppress_errors THEN "none"
                    ELSE "ValueError"]

\* what the connection and settings forms hold when a run is asked for; a
\* lifetime that is not an integer makes _collect_settings_from_vars raise
InvalidForm == JStr(<<"x">>)

FormInputs ==
    { [connection |-> Put(DEFAULT_CONNECTION, "ApiKey", JStr(<<"k">>)),
       automation |-> Put(DEFAULT_AUTOMATION, "GroupName", JStr(<<"g">>))],
      [connection |-> DEFAULT_CONNECTION, automation |-> InvalidForm] }

\* _commit_profile_changes: the manager as it leaves it and whether it returns True
commit_profile_changes(g, u, form) ==
    IF get_selected_opnsense_profile(g) = 0 THEN [m |-> g.m, result |-> "no_profile"]
    ELSE LET m1 == update_opnsense_connection(g.m, u, g.a.current_opnsense_profile_id.v,
                                              form.connection).m
         IN  IF form.automation = InvalidForm THEN [m |-> m1, result |-> "invalid_data"]
             ELSE [m |-> update_opnsense_settings(m1, u, g.a.current_opnsense_profile_id.v,
                                                  form.automation).m,
                   result |-> "ok"]

\* the two scripts: _run_full_setup and _run_build_ovpn
Scripts ==
    { [script_name |-> "Run-Full-Setup.ps1", require_users |-> FALSE],
      [script_name |-> "Build-Ovpn-Files.ps1", require_users |-> TRUE] }

\* what _run_script finds on the machine: both there, no PowerShell, no script file
MachineInputs == {"ok", "no_powershell", "no_script"}

\* opnsense_profile.name or f"Profile {profile_index + 1}"
display_name(profile, profile_index) ==
    IF profile.name # <<>> THEN profile.name
    ELSE <<"P", "r", "o", "f", "i", "l", "e", " ">> \o Dec(profile_index + 1)

\* the thread _run_script creates: the closure's captured values, where the
\* thread is, and the command it has given to Popen
new_worker(script, profile_index, name) ==
    [script_name |-> script.script_name, profile_index |-> profile_index,
     display_name |-> name, pc |-> "created", cmd |-> <<>>]

\* Fault: the worker looks the profile up in the manager when it starts the process.
popen_reading_manager(g, w) ==
    [w EXCEPT !.pc = "running",
              !.cmd = <<w.script_name, Dec(w.profile_index + 1),
                        IF w.profile_index < Len(g.m.opnsense_profiles)
                        THEN g.m.opnsense_profiles[w.profile_index + 1].name
                        ELSE <<>> >>]

\* worker(), up to subprocess.Popen(cmd, ...): -File, -ProfileIndex, -ProfileName
popen(g, w) ==
    [w EXCEPT !.pc = "running",
              !.cmd = <<w.script_name, Dec(w.profile_index + 1), w.display_name>>]

\* _run_script after _commit_profile_changes has returned True; g holds the
\* committed manager, file is the primary store.  The result names the return
\* taken.
run_script(g, file, files, script, io, machine) ==
    LET opnsense_id     == g.a.actions_opnsense_profile_id
        user_profile_id == g.a.actions_user_profile_id
        unchanged(result, a) ==
            [m |-> g.m, a |-> a, store |-> file, files |-> files,
             result |-> result, export |-> "none"]
    IN  IF ~Truthy(opnsense_id) \/ ~Truthy(user_profile_id)
        THEN unchanged("no_selection", g.a)
        ELSE IF get_opnsense_profile(g.m, opnsense_id.v) = 0
             THEN unchanged("not_found", refresh_action_opnsense_selector(g.m, g.a))
        ELSE IF get_user_profile(g.m, user_profile_id.v) = 0
             THEN unchanged("not_found", refresh_action_user_profile_selector(g.m, g.a))
        ELSE IF /\ script.require_users
                /\ g.m.user_profiles[get_user_profile(g.m, user_profile_id.v)].users = <<>>
             THEN unchanged("no_users", g.a)
        ELSE
        LET p == persist_and_export(g.m, files, opnsense_id, user_profile_id, JNull, FALSE, io)
            profile_index == get_opnsense_profile(g.m, opnsense_id.v) - 1
            returned(result, a) ==
                [m |-> g.m, a |-> a, store |-> p.store, files |-> p.files,
                 result |-> result, export |-> p.export]
        IN  IF p.raised = "ValueError" THEN returned("export_failed", g.a)
            ELSE IF p.raised = "OSError" THEN returned("raised_OSError", g.a)
            ELSE IF machine # "ok" THEN returned(machine, g.a)
            ELSE returned("started",
                     [set_button_state(g.a, DISABLED) EXCEPT !.workers =
                         Append1(@, new_worker(script, profile_index,
                                     display_name(g.m.opnsense_profiles[profile_index + 1],
                                                  profile_index)))])

\* the stores the application is started over
AppStartFiles ==
    << <<AbsentFile, NoLegacy>>,
       <<AbsentFile, LegacyFiles>>,
       <<JsonFile(CurrentStore), NoLegacy>>,
       <<JsonFile(EditedStore), NoLegacy>>,
       <<JsonFile(SingleStore), LegacyFiles>> >>

\* App.__init__ after ConfigManager.load() has returned m
new_app(m) ==
    LET current_opnsense == Or(m.selected_opnsense_profile_id,
                               IF m.opnsense_profiles # <<>>
                               THEN JStr(m.opnsense_profiles[1].id) ELSE JNull)
        current_user     == Or(m.selected_user_profile_id,
                               IF m.user_profiles # <<>>
                               THEN JStr(m.user_profiles[1].id) ELSE JNull)
        a0 == [current_opnsense_profile_id |-> current_opnsense,
               current_user_profile_id     |-> current_user,
               action_opnsense_ids         |-> <<>>,
               action_user_profile_ids     |-> <<>>,
               actions_opnsense_profile_id |-> current_opnsense,
               actions_user_profile_id     |-> current_user,
               button_state                |-> NORMAL,
               workers                     |-> <<>>]
    IN  refresh_action_user_profile_selector(m, refresh_action_opnsense_selector(m, a0))

\* the window is up over the manager load() returned
AppStarted(k, r) ==
    /\ r.result = "ok"
    /\ mgr = r.m
    /\ loaded = TRUE
    /\ store = r.store
    /\ legacy = AppStartFiles[k][2]
    /\ uuid = r.uuid
    /\ last = [op |-> "__init__", args |-> <<>>, result |-> "done", export |-> "none"]
    /\ nops = 0
    /\ nfileops = 1
    /\ heap = <<>>
    /\ app = new_app(r.m)

AppInit ==
    \E k \in 1..Len(AppStartFiles) :
        \E r \in {load(AppStartFiles[k][1], AppStartFiles[k][2], 0)} : AppStarted(k, r)

\* a handler has run: it leaves self as g, the files as given, and returned or
\* raised as result says
Handled(op, args, g, store1, files1, result, export) ==
    /\ mgr' = g.m
    /\ app' = g.a
    /\ store' = store1
    /\ legacy' = files1
    /\ last' = [op |-> op, args |-> args, result |-> result, export |-> export]
    /\ nops' = nops + 1
    /\ UNCHANGED <<loaded, uuid, nfileops, heap>>

\* a handler that ends with a best-effort _persist_and_export, p
Persisted(op, args, g, p) ==
    Handled(op, args, g, p.store, p.files,
            IF p.raised = "none" THEN "done" ELSE "raised_OSError", p.export)

\* a handler that returns before it persists: after a dialog, or with nothing to do
Returned(op, args, g, result) == Handled(op, args, g, store, legacy, result, "none")

\* the user picks an entry of the OPNsense combobox of the Actions tab
OnActionOpnsenseSelected ==
    \E selection \in 1..Len(app.action_opnsense_ids) :
        /\ nops < MaxUiEvents
        /\ Returned("_on_action_opnsense_selected", <<selection>>,
                    Self(mgr, update_action_buttons_state(
                                  [app EXCEPT !.actions_opnsense_profile_id =
                                                  JStr(app.action_opnsense_ids[selection])])),
                    "done")

OnActionUserProfileSelected ==
    \E selection \in 1..Len(app.action_user_profile_ids) :
        /\ nops < MaxUiEvents
        /\ Returned("_on_action_user_profile_selected", <<selection>>,
                    Self(mgr, update_action_buttons_state(
                                  [app EXCEPT !.actions_user_profile_id =
                                                  JStr(app.action_user_profile_ids[selection])])),
                    "done")

\* the user picks a profile in the list box of the profile tab
OnOpnsenseProfileSelected ==
    \E index \in 1..Len(mgr.opnsense_profiles) :
        \E r \in {set_selected_opnsense_profile_id(mgr, uuid,
                                                   JStr(mgr.opnsense_profiles[index].id))} :
            /\ nops < MaxUiEvents
            /\ Returned("_on_opnsense_profile_selected", <<index>>,
                        notify(Self(r.m, [app EXCEPT !.current_opnsense_profile_id =
                                                         JStr(mgr.opnsense_profiles[index].id)]),
                               r.events, 1),
                        "done")

\* _rename_profile once the dialog has given new_name, then a best-effort persist
RenamedProfile(new_name, io, r) ==
    IF r.result # "ok"
    THEN Returned("_rename_profile", <<new_name>>, Self(mgr, app), "refused")
    ELSE \E g \in {notify(Self(r.m, app), r.events, 1)} :
             Persisted("_rename_profile", <<new_name>>, g,
                       persist_and_export(g.m, legacy, app.current_opnsense_profile_id,
                                          g.a.current_user_profile_id, JNull, TRUE, io))

RenameProfile ==
    \E k \in 1..Len(NameInputs), io \in IoInputs :
        /\ nops < MaxUiEvents
        /\ get_selected_opnsense_profile(Self(mgr, app)) # 0
        /\ \E r \in {rename_opnsense_profile(mgr, uuid, app.current_opnsense_profile_id.v,
                                             NameInputs[k])} :
               RenamedProfile(NameInputs[k], io, r)

\* _delete_profile once the user has said yes: the profile left selected
\* becomes the current one, then a best-effort persist
DeletedProfile(io, r) ==
    IF r.result # "ok"
    THEN Returned("_delete_profile", <<>>, Self(mgr, app), "refused")
    ELSE \E g \in {notify(Self(r.m, app), r.events, 1)} :
             \E new_profile \in {IF get_selected_profile(g.m.opnsense_profiles,
                                                         g.m.selected_opnsense_profile_id) # 0
                                 THEN g.m.selected_opnsense_profile_id
                                 ELSE JNull} :
                 Persisted("_delete_profile", <<>>,
                           [g EXCEPT !.a.current_opnsense_profile_id = new_profile],
                           persist_and_export(g.m, legacy, new_profile,
                                              g.a.current_user_profile_id, JNull, TRUE, io))

DeleteProfile ==
    \E io \in IoInputs :
        /\ nops < MaxUiEvents
        /\ get_selected_opnsense_profile(Self(mgr, app)) # 0
        /\ \E r \in {delete_opnsense_profile(mgr, uuid, app.current_opnsense_profile_id.v)} :
               DeletedProfile(io, r)

\* _run_script(script): the whole handler, thread start included
RanScript(script, form, c, r) ==
    IF c.result # "ok"
    THEN Returned("_run_script", <<script.script_name>>, Self(c.m, app), c.result)
    ELSE Handled("_run_script", <<script.script_name>>, Self(r.m, r.a),
                 r.store, r.files, r.result, r.export)

RunScript ==
    \E script \in Scripts, form \in FormInputs, io \in IoInputs, machine \in MachineInputs :
        /\ nops < MaxUiEvents
        /\ Len(app.workers) < MaxRuns
        /\ app.button_state = NORMAL
        /\ \E c \in {commit_profile_changes(Self(mgr, app), uuid, form)} :
               \E r \in {run_script(Self(c.m, app), store, legacy, script, io, machine)} :
                   RanScript(script, form, c, r)

\* a worker thread gives its command to subprocess.Popen
WorkerPopen ==
    \E i \in 1..Len(app.workers) :
        /\ app.workers[i].pc = "created"
        /\ app' = [app EXCEPT !.workers[i] = popen(Self(mgr, app), app.workers[i])]
        /\ last' = [op |-> "worker", args |-> <<i>>, result |-> "running", export |-> "none"]
        /\ UNCHANGED <<mgr, loaded, store, legacy, uuid, nops, nfileops, heap>>

\* the process has closed its output and exited; the worker has logged every
\* line and the outcome, and sets the buttons to NORMAL
WorkerExit ==
    \E i \in 1..Len(app.workers) :
        /\ app.workers[i].pc = "running"
        /\ app' = [set_button_state(app, NORMAL) EXCEPT !.workers[i].pc = "exited"]
        /\ last' = [op |-> "worker", args |-> <<i>>, result |-> "exited", export |-> "none"]
        /\ UNCHANGED <<mgr, loaded, store, legacy, uuid, nops, nfileops, heap>>

AppNext ==
    \/ OnActionOpnsenseSelected
    \/ OnActionUserProfileSelected
    \/ OnOpnsenseProfileSelected
    \/ RenameProfile
    \/ DeleteProfile
    \/ RunScript
    \/ WorkerPopen
    \/ WorkerExit

AppSpec == AppInit /\ [][AppNext]_vars

----------------------------------------------------------------------------
(* Properties of the application window.                                    *)

\* the workers whose process has not yet been seen to exit
InProgress(a) == {i \in 1..Len(a.workers) : a.workers[i].pc # "exited"}

\* this step starts a worker thread
WorkerStarted == Len(app'.workers) > Len(app.workers)

\* this step is a _run_script call whose export failed
RunExportFailed == last'.op = "_run_script" /\ last'.export \notin {"ok", "none"}

\* C34: the external process is started only by a worker that a _run_script
\* call created after, in that same call, the primary store was saved and the
\* legacy files were exported successfully for the chosen pair of profiles; when
\* the export fails the failure reaches _run_script and no worker is started.
C34_ProcessOnlyAfterPersistAndExport ==
    [][/\ WorkerStarted
              => /\ last'.op = "_run_script"
                 /\ last'.export = "ok"
                 /\ store' = save(mgr')
                 /\ legacy' = export_legacy_files(mgr', legacy, app.actions_opnsense_profile_id,
                                                  app.actions_user_profile_id, JNull).files
       /\ RunExportFailed
              => /\ last'.result \in {"export_failed", "raised_OSError"}
                 /\ app'.workers = app.workers
       /\ \A i \in 1..Len(app'.workers) :
              app'.workers[i].pc = "running"
                  => i <= Len(app.workers) /\ app.workers[i].pc \in {"created", "running"}]_vars

\* C34 case: a process is running, started by a worker of a run that saved the
\* store and wrote the three legacy files.
C34_Witness ==
    /\ last.op = "worker"
    /\ last.result = "running"
    /\ \E i \in 1..Len(app.workers) : app.workers[i].pc = "running"
    /\ store = save(mgr)
    /\ legacy.profiles.kind = "json"
    /\ legacy.settings.kind = "json"
    /\ legacy.users.kind = "json"

\* this step is a handler that ended in a best-effort persist
BestEffortPersist ==
    last'.op \in {"_rename_profile", "_delete_profile"} /\ last'.result # "refused"

\* C35: a best-effort persist never lets a failure of the legacy export leave
\* the handler, whether a resolution failure or an I/O failure, and the edit
\* and the saved primary store stay committed; with suppress_errors=False the
\* same failure leaves _persist_and_export.
C35_BestEffortPersistSuppresses ==
    [][/\ BestEffortPersist => (last'.result = "done" /\ store' = save(mgr'))
       /\ RunExportFailed => last'.result \in {"export_failed", "raised_OSError"}]_vars

\* the command line made of the values the closure captured
CapturedCmd(w) == <<w.script_name, Dec(w.profile_index + 1), w.display_name>>

\* the worker created by this step has captured the index and the display name
\* the chosen profile has at that moment
CapturedNow ==
    LET w == app'.workers[Len(app'.workers)]
    IN  /\ w.profile_index + 1 = get_opnsense_profile(mgr', app.actions_opnsense_profile_id.v)
        /\ mgr'.opnsense_profiles[w.profile_index + 1].name # <<>>
               => w.display_name = mgr'.opnsense_profiles[w.profile_index + 1].name

\* C36: a step of a worker thread leaves the manager, the primary store and the
\* legacy files as they are, and the command it runs is made of the values
\* captured when _run_script created it, whatever the manager holds by then;
\* the saving and exporting of the run are done in the step that creates it.
C36_WorkerKeepsOffManager ==
    [][/\ last'.op = "worker"
              => /\ mgr' = mgr
                 /\ store' = store
                 /\ legacy' = legacy
                 /\ \A i \in 1..Len(app'.workers) :
                        /\ app'.workers[i].script_name = app.workers[i].script_name
                        /\ app'.workers[i].profile_index = app.workers[i].profile_index
                        /\ app'.workers[i].display_name = app.workers[i].display_name
                        /\ app'.workers[i].pc # "created"
                               => app'.workers[i].cmd = CapturedCmd(app.workers[i])
       /\ WorkerStarted => (CapturedNow /\ store' = save(mgr'))]_vars

\* C36 case: a process was started for a profile that was renamed or deleted
\* after the run was asked for; its command still carries the captured name.
C36_Witness ==
    \E i \in 1..Len(app.workers) :
        /\ app.workers[i].pc = "running"
        /\ app.workers[i].cmd = CapturedCmd(app.workers[i])
        /\ \/ app.workers[i].profile_index >= Len(mgr.opnsense_profiles)
           \/ mgr.opnsense_profiles[app.workers[i].profile_index + 1].name
                  # app.workers[i].display_name

\* C38: at most one run is in progress at any time, and while one is the two
\* run buttons are disabled.
C38_OneRunAtATime ==
    /\ Cardinality(InProgress(app)) <= 1
    /\ InProgress(app) # {} => app.button_state = DISABLED

\* the profiles the run of this step was asked for
ChosenOpnsense ==
    mgr'.opnsense_profiles[get_opnsense_profile(mgr', app.actions_opnsense_profile_id.v)]

ChosenUserProfile ==
    mgr'.user_profiles[get_user_profile(mgr', app.actions_user_profile_id.v)]

\* record is the legacy form of profile: its name and its connection fields
EntryOf(record, profile) ==
    /\ record.v["ProfileName"] = JStr(profile.name)
    /\ \A key \in DOMAIN Get(profile.settings, "connection").v :
           key # "ProfileName" => record.v[key] = Get(profile.settings, "connection").v[key]

\* C39: the ProfileIndex a started run passes on is, counted from one, the
\* place in the config.profiles.json written by that run's export of the entry
\* of the profile chosen for the run; config.settings.json holds that profile's
\* automation object and config.users.json the users of the chosen user profile.
C39_IndexNamesExportedEntry ==
    [][(last'.op = "_run_script" /\ last'.result = "started")
           => /\ EntryOf(LegacyRecords(legacy')[app'.workers[Len(app'.workers)].profile_index + 1],
                         ChosenOpnsense)
              /\ SharedAutomation(legacy') = Get(ChosenOpnsense.settings, "automation")
              /\ UserFields([i \in 1..Len(SharedUsers(legacy').v) |->
                                User_from_dict(SharedUsers(legacy').v[i])])
                     = UserFields(ChosenUserProfile.users)]_vars

\* C39 case: a run was started for the second profile while the first one is
\* the selected one; the index passed on is 2.
C39_Witness ==
    /\ last.op = "_run_script"
    /\ last.result = "started"
    /\ app.workers[Len(app.workers)].profile_index = 1
    /\ mgr.selected_opnsense_profile_id = JStr(mgr.opnsense_profiles[1].id)
    /\ mgr.opnsense_profiles[2].id # mgr.opnsense_profiles[1].id
    /\ LegacyRecords(legacy)[2].v["ProfileName"] = JStr(mgr.opnsense_profiles[2].name)

============================================================================
